---- MODULE Spec2Model ----
(***************************************************************************)
(* Model of the controller-to-device (C2D) channel buffers of go-parrot's  *)
(* ARNetwork layer: c2dBuffer.writeFrames / c2dBuffer.writeFrame, one      *)
(* writer goroutine per buffer, all buffers sharing one Connection; of the *)
(* wifi Connection: NewConnection, receivePackets, Receive, Close; and of  *)
(* frameReceiver.Receive.                                                  *)
(***************************************************************************)
EXTENDS Integers, Sequences, FiniteSets, TLC

\* ------------------------------------------------------------------ bounds
\* Number of frames the application enqueues on one buffer in a bounded run.
MaxItems == 2
\* Largest value of the loop counter `attempts` explored for a buffer whose
\* MaxRetries is -1 (the loop of such a buffer has no exit of its own).
MaxAttempts == 4
\* Number of frames enqueued on each buffer in the runs with two buffers.
MaxItemsTwo == 1
\* Number of datagrams the device sends in a run.
MaxDatagrams == 2
\* Number of socket errors (read deadline, read) injected in a run.
MaxErrors == 1
\* Number of datagrams frameReceiver.Receive reads in a run.
MaxReads == 2
\* Number of connection.Send calls in a run.
MaxSends == 2
\* Number of commands dispatched to pilotingSettingsState and commonState.
MaxCommands == 2
\* Number of commands dispatched to accessoryState.
MaxAccessoryCommands == 3
\* Number of commands dispatched to the four features together.
MaxDispatches == 1

\* ------------------------------------------------------- program constants
\* c2dBuffer.seq is a uint8: c.seq++ wraps modulo 256.
SeqModulus == 256
\* The largest payload of a UDP datagram.
maxUDPDataBytes == 65507

\* The buffers the application may construct.
Buffers == {1, 2}
\* Payloads of the frames the application enqueues.
Payloads == {1, 2}
\* Values of MaxRetries in the channel configuration table.
RetryChoices == {-1, 0, 1, 2}
\* Frame types of a C2D buffer; only DataWithAck is acknowledged.
FrameTypes == {"Data", "DataWithAck"}
\* Buffer sizes in the channel configuration table.
SizeChoices == {1, 2}

NoFrame == [Data |-> 0, id |-> -1]
NoNetFrame == [ID |-> 0, Type |-> "none", Seq |-> 0, Data |-> 0]
NoSend == [attempt |-> -1, after |-> "none", ok |-> TRUE]
\* Configuration of a buffer that is never constructed.
NoConfig ==
    [FrameType |-> "Data", MaxRetries |-> 0, Size |-> 1,
     IsOverwriting |-> FALSE]

VARIABLES
    bufs,       \* the buffers that have been constructed (newC2DBuffer)
    cfg,        \* C2DBufferConfig of each buffer
    outCh,      \* buffer.outCh: frames queued, not yet taken by the writer
    seq,        \* c2dBuffer.seq
    pc,         \* position of the writer goroutine of each buffer
    frame,      \* writeFrame's parameter: the queued item being written
    attempts,   \* writeFrame's loop counter
    netFrame,   \* the arnetworkal.Frame built by the current attempt
    wake,       \* how the last select of the writer ended
    ack,        \* Data of the Ack frame last received from ackCh
    logs,       \* messages written with log.Printf by each writer
    sentLog,    \* observation: frames handed to conn.Send, per buffer
    lastSend,   \* observation: circumstances of the latest conn.Send
    prevSent,   \* observation: Seq of the two frames last handed to conn.Send
    sawAck,     \* observation: an Ack was received for the current item
    finished,   \* observation: items whose writeFrame call has returned
    inflight,   \* observation: items inside a writeFrame call
    enqueued,   \* observation: number of frames enqueued so far
    budget,     \* number of frames the application enqueues on each buffer
    enqResult   \* result of the last enqueue on each buffer

VARIABLES
    nc,         \* NewConnection: "none" before the call, then "ok" or the error
    negStatus,  \* observation: the status of the negotiation response, if any
    sockNeg,    \* the TCP negotiation connection: "nil", "open" or "closed"
    sockC2D,    \* connection.c2dConn's socket: "nil", "open" or "closed"
    sockD2C,    \* connection.d2cConn's socket: "nil", "open" or "closed"
    rpc,        \* position of the receivePackets goroutine
    pendErr,    \* the error receivePackets is handing to rcvErrCh
    pendFrames, \* decoded frames receivePackets has still to hand off
    stopClosed, \* rcvStopCh is closed
    doneClosed, \* rcvDoneCh is closed
    cpc,        \* position of the caller of Close
    closeErrs,  \* the socket closes that failed in Close
    closeTried, \* the sockets Close has called Close on
    closeRet,   \* what Close returned: "none" yet, "nil" or "error"
    sendLog,    \* observation: the Send calls, their results and wire sizes
    rcv,        \* a consumer: "idle", or "blocked" in connection.Receive
    lastRecv,   \* what the consumer's last Receive call returned
    dgCount,    \* observation: number of datagrams read so far
    dgLog,      \* observation: the datagrams read, in order
    errCount,   \* observation: number of socket errors so far
    delivered,  \* observation: what Receive calls have returned, in order
    readsAfterStop, \* observation: reads that ended after rcvStopCh closed
    lastRead    \* observation: how the read of the last loop round ended

VARIABLES
    frLock,     \* holder of frameReceiver.datagramBufferLock, 0 when free
    frPc,       \* position of each caller of frameReceiver.Receive
    frBuf,      \* frameReceiver.datagramBuffer: the datagram it holds
    frData,     \* each caller's copy of the bytes read
    frRet,      \* what each caller's last Receive returned
    frReads,    \* observation: number of datagrams read
    frLast,     \* observation: how the last ReadFromUDP ended
    alive       \* the process has not exited

bufVars == <<bufs, cfg, outCh, seq, pc, frame, attempts, netFrame, wake, ack,
             logs, sentLog, lastSend, prevSent, sawAck, finished, inflight,
             enqueued, budget, enqResult>>

connVars == <<nc, negStatus, sockNeg, sockC2D, sockD2C, rpc, pendErr,
              pendFrames, stopClosed, doneClosed, cpc, closeErrs,
              closeTried, closeRet, sendLog, rcv,
              lastRecv, dgCount, dgLog, errCount, delivered, readsAfterStop,
              lastRead>>

VARIABLES
    rwReaders,  \* per feature state, the readers holding its read lock
    rwWriter,   \* per feature state, whether the write lock is held
    rwPending,  \* per feature state, whether a Lock() call is waiting
    fields,     \* the pointer fields of pilotingSettingsState, commonState
    accessories, \* accessoryState.accessories
    hnd,        \* the handler the dispatcher is running, and how far it is
    cmdCount,   \* observation: number of commands dispatched
    lastArgs,   \* observation: arguments of each handler's last full run
    accSeen     \* observation: per reader, the contents of the map it got
                \* from Accessories() when it got it

fsVars == <<rwReaders, rwWriter, rwPending, fields, accessories, hnd,
            cmdCount, lastArgs, accSeen>>

frVars == <<frLock, frPc, frBuf, frData, frRet, frReads, frLast, alive>>

vars == <<bufVars, connVars, frVars, fsVars>>

\* ----------------------------------------------------------- pure helpers

\* fmt.Sprintf("%d", n) as the bytes of the decimal digits of n.
RECURSIVE FormatDecimal(_)
FormatDecimal(n) ==
    IF n < 10 THEN <<48 + n>>
    ELSE FormatDecimal(n \div 10) \o <<48 + (n % 10)>>

\* The sequence number as one raw byte.
RawByte(n) == <<n>>

IncSeq_nowrap(s) == s + 1
\* c.seq++ on a uint8.
IncSeq(s) == (s + 1) % SeqModulus

LoopCond_strict(a, maxRetries) == a < maxRetries \/ maxRetries = -1
\* The condition of writeFrame's for loop.
LoopCond(a, maxRetries) == a <= maxRetries \/ maxRetries = -1

\* netFrame.Type == arnetworkal.FrameTypeDataWithAck
NeedsAck(type) == type = "DataWithAck"

AckMatches_raw(s, data) == RawByte(s) = data
\* bytes.Equal([]byte(fmt.Sprintf("%d", netFrame.Seq)), ack.Data)
AckMatches(s, data) == FormatDecimal(s) = data

ChanRecv_lifo(q) == [frame |-> q[Len(q)], rest |-> SubSeq(q, 1, Len(q) - 1)]
\* `for frame := range c.outCh`: a receive takes the oldest element of the
\* channel and leaves the others in order.
ChanRecv(q) == [frame |-> Head(q), rest |-> Tail(q)]

AfterWriteFrame_stop(how) == IF how = "exhausted" THEN "stopped" ELSE "range"
\* writeFrames: writeFrame returns nothing, and the range loop goes on to
\* the next frame whatever happened to this one.
AfterWriteFrame(how) == "range"

WriterFree_always(b) == TRUE
WriterFree_shared(b) == \A o \in bufs : pc[o] = "range"
\* go buf.writeFrames(): every buffer has a writer goroutine of its own, and
\* it receives from outCh only at the top of its range loop.
WriterFree(b) == pc[b] = "range"

\* Ack payloads the environment may deliver while the writer waits for the
\* acknowledgment of sequence number s: the decimal text of s, and the
\* decimal text of the preceding number (a late ack of an earlier attempt).
\* Any other payload is treated by writeFrame like the second.
AckChoices(s) ==
    { FormatDecimal(s),
      FormatDecimal((s + SeqModulus - 1) % SeqModulus) }

Configs ==
    [ FrameType : FrameTypes, MaxRetries : RetryChoices,
      Size : SizeChoices, IsOverwriting : BOOLEAN ]

\* ------------------------------------------- feature state: the tables

\* The feature state objects, each with its own sync.RWMutex.
Objects == {"pilotingSettingsState", "commonState", "accessoryState"}

\* The goroutines that call RLock and RUnlock on a feature state.
Readers == {1, 2}

\* A nil pointer field; a reported field holds <<value>>.
Nil == <<>>

\* One assignment of a handler: field := pointer to args[arg - 1],
\* converted as `kind` says.
Assign(f, a, k) == [field |-> f, arg |-> a, kind |-> k]

Handler(o, l, n, w) == [obj |-> o, locks |-> l, nargs |-> n, writes |-> w]

\* The handlers of pilotingSettingsState: whether the handler takes the
\* write lock, the number of arguments of its command, and its
\* assignments in program order.
PilotingHandlers ==
    "maxAltitudeChanged" :> Handler("pilotingSettingsState", TRUE, 3,
        << Assign("maxAltitude", 1, "num"),
           Assign("maxAltitudeRangeMin", 2, "num"),
           Assign("maxAltitudeRangeMax", 3, "num") >>)
    @@ "maxTiltChanged" :> Handler("pilotingSettingsState", FALSE, 3,
        << Assign("maxTilt", 1, "num"),
           Assign("maxTiltRangeMin", 2, "num"),
           Assign("maxTiltRangeMax", 3, "num") >>)
    @@ "maxDistanceChanged" :> Handler("pilotingSettingsState", TRUE, 3,
        << Assign("maxDistance", 1, "num"),
           Assign("maxDistanceRangeMin", 2, "num"),
           Assign("maxDistanceRangeMax", 3, "num") >>)
    @@ "noFlyOverMaxDistanceChanged" :>
        Handler("pilotingSettingsState", TRUE, 1,
        << Assign("geofencingEnabled", 1, "isOne") >>)
    @@ "autonomousFlightMaxHorizontalSpeed" :>
        Handler("pilotingSettingsState", FALSE, 1, <<>>)
    @@ "autonomousFlightMaxVerticalSpeed" :>
        Handler("pilotingSettingsState", FALSE, 1, <<>>)
    @@ "autonomousFlightMaxHorizontalAcceleration" :>
        Handler("pilotingSettingsState", FALSE, 1, <<>>)
    @@ "autonomousFlightMaxVerticalAcceleration" :>
        Handler("pilotingSettingsState", FALSE, 1, <<>>)
    @@ "autonomousFlightMaxRotationSpeed" :>
        Handler("pilotingSettingsState", FALSE, 1, <<>>)
    @@ "bankedTurnChanged" :> Handler("pilotingSettingsState", TRUE, 1,
        << Assign("bankedTurningEnabled", 1, "isOne") >>)
    @@ "motionDetection" :> Handler("pilotingSettingsState", TRUE, 1,
        << Assign("motionDetectionEnabled", 1, "isOne") >>)

\* The handlers of commonState.
CommonHandlers ==
    "allStatesChanged" :> Handler("commonState", FALSE, 0, <<>>)
    @@ "batteryStateChanged" :> Handler("commonState", TRUE, 1,
        << Assign("batteryPercent", 1, "num") >>)
    @@ "massStorageStateListChanged" :>
        Handler("commonState", FALSE, 2, <<>>)
    @@ "massStorageInfoStateListChanged" :>
        Handler("commonState", FALSE, 6, <<>>)
    @@ "currentDateChanged" :> Handler("commonState", FALSE, 1, <<>>)
    @@ "currentTimeChanged" :> Handler("commonState", FALSE, 1, <<>>)
    @@ "wifiSignalChanged" :> Handler("commonState", TRUE, 1,
        << Assign("rssi", 1, "num") >>)
    @@ "sensorsStatesListChanged" :> Handler("commonState", FALSE, 2, <<>>)
    @@ "deprecatedMassStorageContentChanged" :>
        Handler("commonState", FALSE, 5, <<>>)
    @@ "massStorageContent" :> Handler("commonState", TRUE, 6,
        << Assign("massStorageID", 1, "num"),
           Assign("photoCount", 2, "num"),
           Assign("videoCount", 3, "num"),
           Assign("pudCount", 4, "num"),
           Assign("crashLogCount", 5, "num"),
           Assign("rawPhotoCount", 6, "num") >>)
    @@ "massStorageContentForCurrentRun" :> Handler("commonState", TRUE, 4,
        << Assign("currentRunMassStorageID", 1, "num"),
           Assign("currentRunPhotoCount", 2, "num"),
           Assign("currentRunVideoCount", 3, "num"),
           Assign("currentRunRawPhotoCount", 4, "num") >>)
    @@ "videoRecordingTimestamp" :> Handler("commonState", FALSE, 2, <<>>)

\* The handlers of accessoryState; their bodies work on the accessories
\* map (AccApply).
AccessoryHandlers ==
    "connectedAccessories" :> Handler("accessoryState", TRUE, 5, <<>>)
    @@ "battery" :> Handler("accessoryState", TRUE, 3, <<>>)

\* The handler of networkEvent: it only logs.
NetworkHandlers ==
    "disconnection" :> Handler("networkEvent", FALSE, 1, <<>>)

HandlerTable ==
    PilotingHandlers @@ CommonHandlers @@ AccessoryHandlers
        @@ NetworkHandlers

FeatureHandlers == DOMAIN PilotingHandlers \cup DOMAIN CommonHandlers

HObj(h) == HandlerTable[h].obj

\* Whether the handler starts with Lock() and a deferred Unlock().
TakesLock(h) == HandlerTable[h].locks

Writes(h) == HandlerTable[h].writes

\* Number of steps of the handler's body.
Steps(h) == IF HObj(h) = "accessoryState" THEN 1 ELSE Len(Writes(h))

Schema_empty == [h \in DOMAIN HandlerTable |-> <<>>]

\* The argument types each command is registered with in D2CCommands.
Schema ==
    "maxAltitudeChanged" :> <<"float32", "float32", "float32">>
    @@ "maxTiltChanged" :> <<"float32", "float32", "float32">>
    @@ "maxDistanceChanged" :> <<"float32", "float32", "float32">>
    @@ "noFlyOverMaxDistanceChanged" :> <<"uint8">>
    @@ "autonomousFlightMaxHorizontalSpeed" :> <<"float32">>
    @@ "autonomousFlightMaxVerticalSpeed" :> <<"float32">>
    @@ "autonomousFlightMaxHorizontalAcceleration" :> <<"float32">>
    @@ "autonomousFlightMaxVerticalAcceleration" :> <<"float32">>
    @@ "autonomousFlightMaxRotationSpeed" :> <<"float32">>
    @@ "bankedTurnChanged" :> <<"uint8">>
    @@ "motionDetection" :> <<"uint8">>
    @@ "allStatesChanged" :> <<>>
    @@ "batteryStateChanged" :> <<"uint8">>
    @@ "massStorageStateListChanged" :> <<"uint8", "string">>
    @@ "massStorageInfoStateListChanged" :>
        <<"uint8", "uint32", "uint32", "uint8", "uint8", "uint8">>
    @@ "currentDateChanged" :> <<"string">>
    @@ "currentTimeChanged" :> <<"string">>
    @@ "wifiSignalChanged" :> <<"int16">>
    @@ "sensorsStatesListChanged" :> <<"int32", "uint8">>
    @@ "deprecatedMassStorageContentChanged" :>
        <<"uint8", "uint16", "uint16", "uint16", "uint16">>
    @@ "massStorageContent" :>
        <<"uint8", "uint16", "uint16", "uint16", "uint16", "uint16">>
    @@ "massStorageContentForCurrentRun" :>
        <<"uint8", "uint16", "uint16", "uint16">>
    @@ "videoRecordingTimestamp" :> <<"uint64", "uint64">>
    @@ "connectedAccessories" :>
        <<"uint8", "int32", "string", "string", "uint8">>
    @@ "battery" :> <<"uint8", "uint8", "uint8">>
    @@ "disconnection" :> <<"int32">>

\* One type assertion: args[arg - 1].(type).
TypeAssert(a, t) == [arg |-> a, type |-> t]

\* The type assertions of the pilotingSettingsState and commonState
\* handlers, per assignment and in program order; an assertion in the log
\* call that follows an assignment is listed with it.
FieldAsserts ==
    "maxAltitudeChanged" :>
        << <<TypeAssert(1, "float32")>>, <<TypeAssert(2, "float32")>>,
           <<TypeAssert(3, "float32")>> >>
    @@ "maxTiltChanged" :>
        << <<TypeAssert(1, "float32")>>, <<TypeAssert(2, "float32")>>,
           <<TypeAssert(3, "float32")>> >>
    @@ "maxDistanceChanged" :>
        << <<TypeAssert(1, "float32")>>, <<TypeAssert(2, "float32")>>,
           <<TypeAssert(3, "float32")>> >>
    @@ "noFlyOverMaxDistanceChanged" :>
        << <<TypeAssert(1, "uint8"), TypeAssert(1, "uint8")>> >>
    @@ "bankedTurnChanged" :>
        << <<TypeAssert(1, "uint8"), TypeAssert(1, "uint8")>> >>
    @@ "motionDetection" :> << <<TypeAssert(1, "uint8")>> >>
    @@ "batteryStateChanged" :> << <<TypeAssert(1, "uint8")>> >>
    @@ "wifiSignalChanged" :> << <<TypeAssert(1, "int16")>> >>
    @@ "massStorageContent" :>
        << <<TypeAssert(1, "uint8")>>, <<TypeAssert(2, "uint16")>>,
           <<TypeAssert(3, "uint16")>>, <<TypeAssert(4, "uint16")>>,
           <<TypeAssert(5, "uint16")>>, <<TypeAssert(6, "uint16")>> >>
    @@ "massStorageContentForCurrentRun" :>
        << <<TypeAssert(1, "uint8")>>, <<TypeAssert(2, "uint16")>>,
           <<TypeAssert(3, "uint16")>>, <<TypeAssert(4, "uint16")>> >>

\* The type assertions on the path an accessoryState handler takes: the
\* list_flags first, the ID unless the list is empty, the attributes
\* unless the accessory is removed.
AccessoryAsserts(h, flags) ==
    LET nflags == IF h = "connectedAccessories" THEN 5 ELSE 3
        attrs == IF h = "connectedAccessories"
                 THEN <<TypeAssert(2, "int32"), TypeAssert(3, "string"),
                        TypeAssert(4, "string")>>
                 ELSE <<TypeAssert(2, "uint8")>>
    IN
    <<TypeAssert(nflags, "uint8")>>
        \o (IF (flags \div 4) % 2 = 1 THEN <<>>
            ELSE <<TypeAssert(1, "uint8")>>
                     \o (IF (flags \div 8) % 2 = 1 THEN <<>> ELSE attrs))

\* Whether every assertion of the list succeeds on arguments of the given
\* types: an index past the end and a type that differs both panic.
Passes(asserts, types) ==
    \A j \in DOMAIN asserts :
        /\ asserts[j].arg <= Len(types)
        /\ types[asserts[j].arg] = asserts[j].type

\* The pointer fields of pilotingSettingsState.
PilotingFields ==
    { "motionDetectionEnabled", "maxAltitude", "maxAltitudeRangeMin",
      "maxAltitudeRangeMax", "maxDistance", "maxDistanceRangeMin",
      "maxDistanceRangeMax", "maxTilt", "maxTiltRangeMin",
      "maxTiltRangeMax", "geofencingEnabled", "bankedTurningEnabled" }

\* The pointer fields of commonState.
CommonFields ==
    { "rssi", "massStorageID", "photoCount", "videoCount", "pudCount",
      "crashLogCount", "rawPhotoCount", "currentRunMassStorageID",
      "currentRunPhotoCount", "currentRunVideoCount",
      "currentRunRawPhotoCount", "batteryPercent" }

\* The *bool fields; the others are numbers.
BoolFields ==
    {"motionDetectionEnabled", "geofencingEnabled", "bankedTurningEnabled"}

AllFields == PilotingFields \cup CommonFields

FieldsOf(o) ==
    IF o = "pilotingSettingsState" THEN PilotingFields
    ELSE IF o = "commonState" THEN CommonFields
    ELSE {}

\* The zero value an accessor returns for a field that was never reported.
Zero(f) == IF f \in BoolFields THEN FALSE ELSE 0

\* ptr.ToFloat32(args[i].(float32)) and the like keep the value;
\* ptr.ToBool(args[i].(uint8) == 1) is true for 1 only.
Convert(kind, v) == IF kind = "isOne" THEN v = 1 ELSE v

\* The argument lists a command is dispatched with: the i-th argument is
\* seed * 10 + i, so that arguments differ by position and by command.
ArgSeeds == {0, 1}

Args(n) == {[i \in 1..n |-> 10 * v + i] : v \in ArgSeeds}

\* The accessory IDs the device reports.
AccessoryIDs == {11, 12}

\* Values of list_flags: none, Last (0x02), Empty (0x04), Remove (0x08),
\* and Empty with Remove.
ListFlags == {0, 2, 4, 8, 12}

\* The argument lists of ConnectedAccessories (id, accessory_type, uid,
\* swVersion, list_flags) and Battery (id, batteryLevel, list_flags).
AccessoryArgs(h) ==
    IF h = "connectedAccessories"
    THEN {<<id, 10 * v + 2, 10 * v + 3, 10 * v + 4, fl>> :
              id \in AccessoryIDs, v \in ArgSeeds, fl \in ListFlags}
    ELSE {<<id, 10 * v + 2, fl>> :
              id \in AccessoryIDs, v \in ArgSeeds, fl \in ListFlags}

\* The argument lists handler h is dispatched with; a handler that reads
\* none of its arguments is given one list.
ArgsFor(h) ==
    IF HObj(h) = "accessoryState" THEN AccessoryArgs(h)
    ELSE IF Writes(h) = <<>> THEN {[i \in 1..HandlerTable[h].nargs |-> i]}
    ELSE Args(HandlerTable[h].nargs)

\* No handler is running.
NoCall == [name |-> "idle", args |-> <<>>, types |-> <<>>, pc |-> "idle",
           done |-> 0, heldSince |-> {}]

\* The accessories map as constructed: no entry.
NoAccessories == [id \in {} |-> 0]

\* The feature states as constructed: every field nil, no accessory, the
\* locks free, no handler running.
FSInit ==
    /\ rwReaders = [o \in Objects |-> {}]
    /\ rwWriter = [o \in Objects |-> FALSE]
    /\ rwPending = [o \in Objects |-> FALSE]
    /\ fields = [f \in AllFields |-> Nil]
    /\ accessories = NoAccessories
    /\ hnd = NoCall
    /\ cmdCount = 0
    /\ lastArgs = [h \in FeatureHandlers |-> <<>>]
    /\ accSeen = [r \in Readers |-> <<>>]

\* ------------------------------------------------------------------ Init

NoRecv == [kind |-> "none", dg |-> 0, idx |-> 0]

\* Before NewConnection is called: no socket, no goroutine.
ConnInit ==
    /\ nc = "none"
    /\ negStatus = {}
    /\ sockNeg = "nil"
    /\ sockC2D = "nil"
    /\ sockD2C = "nil"
    /\ rpc = "notStarted"
    /\ pendErr = "none"
    /\ pendFrames = <<>>
    /\ stopClosed = FALSE
    /\ doneClosed = FALSE
    /\ cpc = "idle"
    /\ closeErrs = {}
    /\ closeTried = {}
    /\ closeRet = "none"
    /\ sendLog = <<>>
    /\ rcv = "idle"
    /\ lastRecv = NoRecv
    /\ dgCount = 0
    /\ dgLog = <<>>
    /\ errCount = 0
    /\ delivered = <<>>
    /\ readsAfterStop = 0
    /\ lastRead = "none"

\* The goroutines that call frameReceiver.Receive.
Callers == {1, 2}

\* No caller is in frameReceiver.Receive.
\* A nil byte slice.
NoData == [own |-> TRUE, bytes |-> 0]

FRInit ==
    /\ frLock = 0
    /\ frPc = [c \in Callers |-> "idle"]
    /\ frBuf = 0
    /\ frData = [c \in Callers |-> NoData]
    /\ frRet = [c \in Callers |-> [kind |-> "none", data |-> NoData]]
    /\ frReads = 0
    /\ frLast = "none"
    /\ alive = TRUE

InitWith(constructed, configs, items) ==
    /\ bufs = constructed
    /\ cfg \in [Buffers -> configs \cup {NoConfig}]
    /\ \A b \in Buffers :
         IF b \in constructed THEN cfg[b] \in configs ELSE cfg[b] = NoConfig
    /\ outCh = [b \in Buffers |-> <<>>]
    /\ seq = [b \in Buffers |-> 0]
    /\ pc = [b \in Buffers |-> "range"]
    /\ frame = [b \in Buffers |-> NoFrame]
    /\ attempts = [b \in Buffers |-> 0]
    /\ netFrame = [b \in Buffers |-> NoNetFrame]
    /\ wake = [b \in Buffers |-> "none"]
    /\ ack = [b \in Buffers |-> <<>>]
    /\ logs = [b \in Buffers |-> {}]
    /\ sentLog = [b \in Buffers |-> <<>>]
    /\ lastSend = [b \in Buffers |-> NoSend]
    /\ sawAck = [b \in Buffers |-> FALSE]
    /\ prevSent = [b \in Buffers |-> <<>>]
    /\ finished = [b \in Buffers |-> <<>>]
    /\ inflight = [b \in Buffers |-> {}]
    /\ enqueued = [b \in Buffers |-> 0]
    /\ budget = [b \in Buffers |-> items]
    /\ enqResult = [b \in Buffers |-> "none"]
    /\ ConnInit
    /\ FRInit
    /\ FSInit

\* One buffer, any configuration of the table.
Init == InitWith({1}, Configs, MaxItems)

\* ---------------------------------------------------------------- actions

\* buffer enqueue (newBuffer(Size, IsOverwriting)): append when there is
\* room; when full, evict the oldest queued frame if IsOverwriting, else
\* reject.
Push_overwrite(q, f, size, overwriting) ==
    IF Len(q) < size THEN Append(q, f) ELSE Append(Tail(q), f)

Push_reject(q, f, size, overwriting) ==
    IF Len(q) < size THEN Append(q, f) ELSE q

Push(q, f, size, overwriting) ==
    IF Len(q) < size THEN Append(q, f)
    ELSE IF overwriting THEN Append(Tail(q), f)
    ELSE q

PushResult(q, size, overwriting) ==
    IF Len(q) < size THEN "ok"
    ELSE IF overwriting THEN "evicted"
    ELSE "BufferFull"

\* The application enqueues one of a bounded number of frames.
Enqueue(b) ==
    /\ b \in bufs
    /\ enqueued[b] < budget[b]
    /\ \E d \in Payloads :
         LET f == [Data |-> d, id |-> enqueued[b] + 1] IN
         /\ outCh' = [outCh EXCEPT ![b] =
                Push(@, f, cfg[b].Size, cfg[b].IsOverwriting)]
         /\ enqResult' = [enqResult EXCEPT ![b] =
                PushResult(outCh[b], cfg[b].Size, cfg[b].IsOverwriting)]
    /\ enqueued' = [enqueued EXCEPT ![b] = @ + 1]
    /\ UNCHANGED <<bufs, cfg, seq, pc, frame, attempts, netFrame, wake, ack,
                   logs, sentLog, lastSend, prevSent, sawAck, finished,
                   inflight, budget,
                   connVars, frVars, fsVars>>

\* writeFrames: `for frame := range c.outCh` receives the next frame and
\* calls writeFrame, whose loop starts with attempts := 0.
TakeNext(b) ==
    /\ b \in bufs
    /\ WriterFree(b)
    /\ outCh[b] # <<>>
    /\ frame' = [frame EXCEPT ![b] = ChanRecv(outCh[b]).frame]
    /\ outCh' = [outCh EXCEPT ![b] = ChanRecv(outCh[b]).rest]
    /\ attempts' = [attempts EXCEPT ![b] = 0]
    /\ pc' = [pc EXCEPT ![b] = "for"]
    /\ inflight' = [inflight EXCEPT ![b] = @ \cup {ChanRecv(outCh[b]).frame.id}]
    /\ sawAck' = [sawAck EXCEPT ![b] = FALSE]
    /\ UNCHANGED <<bufs, cfg, seq, netFrame, wake, ack, logs, sentLog,
                   lastSend, prevSent, finished, enqueued, budget, enqResult,
                   connVars, frVars, fsVars>>

Observed(b, nf) ==
    [ id |-> frame[b].id, ID |-> nf.ID, Type |-> nf.Type, Seq |-> nf.Seq,
      Data |-> nf.Data ]

NetFrameFor_retyped(b) ==
    [ID |-> b, Seq |-> seq[b], Data |-> frame[b].Data,
     Type |-> IF attempts[b] > 0 THEN "Data" ELSE cfg[b].FrameType]

\* netFrame := arnetworkal.Frame{ID: c.ID, Type: c.FrameType, Seq: c.seq,
\* Data: frame.Data}
NetFrameFor(b) ==
    [ID |-> b, Type |-> cfg[b].FrameType, Seq |-> seq[b],
     Data |-> frame[b].Data]

AfterSend_abort(ok, type) ==
    IF ~ok THEN "range" ELSE IF NeedsAck(type) THEN "select" ELSE "for"

\* Where writeFrame goes after conn.Send: the error is logged and not looked
\* at again; the select if the frame's type asks for an ack, else attempts++
\* and the loop condition.
AfterSend(ok, type) == IF NeedsAck(type) THEN "select" ELSE "for"

\* One iteration of writeFrame's loop up to the select: build netFrame with
\* the current seq, c.seq++, conn.Send (an error is logged, nothing more),
\* then wait for the ack if the type asks for one, else go round the loop.
Attempt(b) ==
    /\ b \in bufs
    /\ pc[b] = "for"
    /\ LoopCond(attempts[b], cfg[b].MaxRetries)
    /\ attempts[b] < MaxAttempts
    /\ \E ok \in BOOLEAN :
         LET nf == NetFrameFor(b) IN
         /\ netFrame' = [netFrame EXCEPT ![b] = nf]
         /\ logs' = [logs EXCEPT ![b] =
                IF ok THEN @ ELSE @ \cup {"error sending frame"}]
         /\ sentLog' = [sentLog EXCEPT ![b] =
                IF frame[b].id > 0 THEN Append(@, Observed(b, nf)) ELSE @]
         /\ lastSend' = [lastSend EXCEPT ![b] =
                [attempt |-> attempts[b], after |-> wake[b], ok |-> ok]]
         /\ prevSent' = [prevSent EXCEPT ![b] =
                IF @ = <<>> THEN <<nf.Seq>> ELSE <<@[Len(@)], nf.Seq>>]
         /\ pc' = [pc EXCEPT ![b] = AfterSend(ok, cfg[b].FrameType)]
    /\ seq' = [seq EXCEPT ![b] = IncSeq(@)]
    /\ wake' = [wake EXCEPT ![b] = "none"]
    /\ ack' = [ack EXCEPT ![b] = <<>>]
    /\ attempts' = [attempts EXCEPT ![b] =
           IF NeedsAck(cfg[b].FrameType) THEN @ ELSE @ + 1]
    /\ UNCHANGED <<bufs, cfg, outCh, frame, sawAck, finished, inflight,
                   enqueued, budget, enqResult,
                   connVars, frVars, fsVars>>

Outcome(b, how) ==
    [ id |-> frame[b].id, how |-> how,
      sends |-> Cardinality({i \in DOMAIN sentLog[b] :
                                sentLog[b][i].id = frame[b].id}),
      sawAck |-> sawAck[b] \/ how = "acked" ]

Return(b, how) ==
    /\ pc' = [pc EXCEPT ![b] = AfterWriteFrame(how)]
    /\ finished' = [finished EXCEPT ![b] =
           IF frame[b].id > 0 THEN Append(@, Outcome(b, how)) ELSE @]
    /\ inflight' = [inflight EXCEPT ![b] = @ \ {frame[b].id}]

\* The loop condition fails: writeFrame returns, without any report.
GiveUp(b) ==
    /\ b \in bufs
    /\ pc[b] = "for"
    /\ ~LoopCond(attempts[b], cfg[b].MaxRetries)
    /\ Return(b, "exhausted")
    /\ UNCHANGED <<bufs, cfg, outCh, seq, frame, attempts, netFrame, wake,
                   ack, logs, sentLog, lastSend, prevSent, sawAck, enqueued,
                   budget, enqResult,
                   connVars, frVars, fsVars>>

\* select, case ack := <-c.ackCh: return when the ack's Data is the decimal
\* text of netFrame.Seq; otherwise fall out of the select into attempts++.
AckArrives(b) ==
    /\ b \in bufs
    /\ pc[b] = "select"
    /\ \E data \in AckChoices(netFrame[b].Seq) :
         /\ ack' = [ack EXCEPT ![b] = data]
         /\ wake' = [wake EXCEPT ![b] = "ack"]
         /\ sawAck' = [sawAck EXCEPT ![b] = TRUE]
         /\ IF AckMatches(netFrame[b].Seq, data)
            THEN /\ Return(b, "acked")
                 /\ UNCHANGED attempts
            ELSE /\ attempts' = [attempts EXCEPT ![b] = @ + 1]
                 /\ pc' = [pc EXCEPT ![b] = "for"]
                 /\ UNCHANGED <<finished, inflight>>
    /\ UNCHANGED <<bufs, cfg, outCh, seq, frame, netFrame, logs, sentLog,
                   lastSend, prevSent, enqueued, budget, enqResult,
                   connVars, frVars, fsVars>>

\* select, case <-time.After(c.AckTimeout): attempts++ and round the loop.
Timeout(b) ==
    /\ b \in bufs
    /\ pc[b] = "select"
    /\ wake' = [wake EXCEPT ![b] = "timeout"]
    /\ attempts' = [attempts EXCEPT ![b] = @ + 1]
    /\ pc' = [pc EXCEPT ![b] = "for"]
    /\ UNCHANGED <<bufs, cfg, outCh, seq, frame, netFrame, ack, logs,
                   sentLog, lastSend, prevSent, sawAck, finished, inflight,
                   enqueued, budget, enqResult,
                   connVars, frVars, fsVars>>

Next ==
    \E b \in Buffers :
        \/ Enqueue(b)
        \/ TakeNext(b)
        \/ Attempt(b)
        \/ GiveUp(b)
        \/ AckArrives(b)
        \/ Timeout(b)

Spec == Init /\ [][Next]_vars

\* --------------------------------------------- further specifications

\* The scheduler runs every runnable writer goroutine, and a timer started
\* with time.After fires; nothing obliges the device to acknowledge or the
\* application to enqueue.
Writer(b) == TakeNext(b) \/ Attempt(b) \/ GiveUp(b) \/ Timeout(b)

Fairness == \A b \in Buffers : WF_vars(Writer(b))

\* One acknowledged buffer with bounded retries, with the scheduling the
\* runtime guarantees.
FairConfigs ==
    [ FrameType : {"DataWithAck"}, MaxRetries : {0, 1},
      Size : SizeChoices, IsOverwriting : BOOLEAN ]

InitFair == InitWith({1}, FairConfigs, MaxItems)

FairSpec == InitFair /\ [][Next]_vars /\ Fairness

\* Two buffers on one Connection: buffer 1 is acknowledged with unbounded
\* retries, buffer 2 is a plain Data channel.
TwoConfigs(b) ==
    IF b = 1
    THEN [ FrameType : {"DataWithAck"}, MaxRetries : {-1},
           Size : {1}, IsOverwriting : {FALSE} ]
    ELSE [ FrameType : {"Data"}, MaxRetries : {0},
           Size : {1}, IsOverwriting : {FALSE} ]

InitTwo ==
    /\ InitWith(Buffers, Configs, MaxItemsTwo)
    /\ \A b \in Buffers : cfg[b] \in TwoConfigs(b)

SpecTwo == InitTwo /\ [][Next]_vars

\* An endless stream of frames on one buffer: the frames are not numbered
\* and leave no trace in sentLog and finished.
EnqueueStream(b) ==
    /\ b \in bufs
    /\ \E d \in Payloads :
         LET f == [Data |-> d, id |-> 0] IN
         /\ outCh' = [outCh EXCEPT ![b] =
                Push(@, f, cfg[b].Size, cfg[b].IsOverwriting)]
         /\ enqResult' = [enqResult EXCEPT ![b] =
                PushResult(outCh[b], cfg[b].Size, cfg[b].IsOverwriting)]
    /\ UNCHANGED <<bufs, cfg, seq, pc, frame, attempts, netFrame, wake, ack,
                   logs, sentLog, lastSend, prevSent, sawAck, finished,
                   inflight, enqueued, budget,
                   connVars, frVars, fsVars>>

WrapConfigs ==
    [ FrameType : FrameTypes, MaxRetries : {1},
      Size : {1}, IsOverwriting : {FALSE} ]

InitWrap == InitWith({1}, WrapConfigs, 0)

NextWrap ==
    \E b \in Buffers :
        \/ EnqueueStream(b)
        \/ TakeNext(b)
        \/ Attempt(b)
        \/ GiveUp(b)
        \/ AckArrives(b)
        \/ Timeout(b)

SpecWrap == InitWrap /\ [][NextWrap]_vars

\* ------------------------------------------------ the wifi Connection

\* The steps of NewConnection that can fail, in program order.
Stages == << "freeport", "resolveNeg", "dialNeg", "marshal", "writeNeg",
             "readNeg", "unmarshal", "resolveC2D", "dialC2D", "resolveD2C",
             "listenD2C" >>

StageNo(s) == CHOOSE i \in DOMAIN Stages : Stages[i] = s

FailPoints == {Stages[i] : i \in DOMAIN Stages} \cup {"none"}

\* Values of the Status field of the device's negotiation response.
Statuses == {-1, 0, 1}

Refused_never(status) == FALSE

\* if negRes.Status != 0
Refused(status) == status # 0

\* NewConnection(), with the step that fails (if any) and the status the
\* device answers.  The negotiation connection is closed by the deferred
\* negConn.Close(); c2dConn is not closed when a later step fails.
NewConnection(fail, status) ==
    LET failNo == IF fail = "none" THEN Len(Stages) + 1 ELSE StageNo(fail)
        past(s) == StageNo(s) < failNo
        answered == past("unmarshal")
        result ==
            IF ~answered THEN fail
            ELSE IF Refused(status) THEN "refused"
            ELSE IF fail # "none" THEN fail
            ELSE "ok"
    IN
    /\ nc = "none"
    /\ nc' = result
    /\ negStatus' = IF answered THEN {status} ELSE {}
    /\ sockNeg' = IF past("dialNeg") THEN "closed" ELSE "nil"
    /\ sockC2D' = IF result = "ok" \/ result \in {"resolveD2C", "listenD2C"}
                  THEN "open" ELSE "nil"
    /\ sockD2C' = IF result = "ok" THEN "open" ELSE "nil"
    /\ rpc' = IF result = "ok" THEN "top" ELSE "notStarted"
    /\ UNCHANGED <<pendErr, pendFrames, stopClosed, doneClosed, cpc,
                   closeErrs,
                   closeTried, closeRet, sendLog, rcv, lastRecv, dgCount,
                   dgLog, errCount,
                   delivered, readsAfterStop, lastRead, bufVars,
                   frVars, fsVars>>

StopReady_never == FALSE

\* case <-c.rcvStopCh: a receive from the stop channel is ready once the
\* channel is closed.
StopReady == stopClosed

\* receivePackets, top of the loop, stop channel closed: return, and the
\* deferred close(c.rcvDoneCh) runs.
LoopStop ==
    /\ rpc = "top"
    /\ StopReady
    /\ rpc' = "exited"
    /\ doneClosed' = TRUE
    /\ UNCHANGED <<nc, negStatus, sockNeg, sockC2D, sockD2C, pendErr,
                   pendFrames, stopClosed, cpc, closeErrs,
                   closeTried, closeRet, sendLog, rcv, lastRecv,
                   dgCount, dgLog, errCount, delivered, readsAfterStop,
                   lastRead, bufVars,
                   frVars, fsVars>>

\* receivePackets, default branch: SetReadDeadline succeeds or fails.
SetDeadline ==
    /\ rpc = "top"
    /\ ~StopReady
    /\ \E ok \in BOOLEAN :
         /\ ~ok => errCount < MaxErrors
         /\ rpc' = IF ok THEN "read" ELSE "sendErr"
         /\ pendErr' = IF ok THEN "none" ELSE "deadline"
         /\ errCount' = IF ok THEN errCount ELSE errCount + 1
    /\ lastRead' = "none"
    /\ UNCHANGED <<nc, negStatus, sockNeg, sockC2D, sockD2C, pendFrames,
                   stopClosed, doneClosed, cpc, closeErrs,
                   closeTried, closeRet, sendLog, rcv, lastRecv,
                   dgCount, dgLog, delivered, readsAfterStop, bufVars,
                   frVars, fsVars>>

\* The errors ReadFromUDP returns: the deadline expiring, or another
\* network error.
ReadErrors == {"timeout", "neterr"}

IsTimeout_never(e) == FALSE

\* opErr, ok := err.(*net.OpError); ok && opErr.Timeout()
IsTimeout(e) == e = "timeout"

ErrRoute_exit(e) == IF IsTimeout(e) THEN "top" ELSE "exited"

\* Where receivePackets goes after a failed read: a timeout continues the
\* loop, any other error is first offered on rcvErrCh.
ErrRoute(e) == IF IsTimeout(e) THEN "top" ELSE "sendErr"

CountAfterStop == IF stopClosed THEN readsAfterStop + 1 ELSE readsAfterStop

\* ReadFromUDP returns an error.
ReadFail ==
    /\ rpc = "read"
    /\ \E e \in ReadErrors :
         /\ ~IsTimeout(e) => errCount < MaxErrors
         /\ rpc' = ErrRoute(e)
         /\ pendErr' = IF IsTimeout(e) THEN "none" ELSE "read"
         /\ errCount' = IF IsTimeout(e) THEN errCount ELSE errCount + 1
         /\ lastRead' = e
    /\ readsAfterStop' = CountAfterStop
    /\ UNCHANGED <<nc, negStatus, sockNeg, sockC2D, sockD2C, pendFrames,
                   stopClosed, doneClosed, cpc, closeErrs,
                   closeTried, closeRet, sendLog, rcv, lastRecv,
                   dgCount, dgLog, delivered, bufVars,
                   frVars, fsVars>>

\* Number of frames one datagram carries.
FrameCounts == {0, 1, 2}

\* A datagram as c.decodeData sees it: it decodes to n frames, or decoding
\* fails after n frames.
Datagrams == [ok : BOOLEAN, n : FrameCounts]

\* The frames decoded from the k-th datagram.
FramesOf(k, d) == [i \in 1..d.n |-> [kind |-> "frame", dg |-> k, idx |-> i]]

\* frames, err := c.decodeData(...): on an error the frames are dropped.
AfterDecode(k, d) == IF d.ok THEN FramesOf(k, d) ELSE <<>>

DecodeRoute_ignore(d, frames) == IF frames = <<>> THEN "top" ELSE "sendFrame"

\* if err != nil: the error is offered on rcvErrCh; else the frames are
\* handed off one by one, and the loop goes round again after the last.
DecodeRoute(d, frames) ==
    IF ~d.ok THEN "sendErr"
    ELSE IF frames = <<>> THEN "top"
    ELSE "sendFrame"

\* ReadFromUDP returns a datagram, which is decoded.
ReadDatagram ==
    /\ rpc = "read"
    /\ dgCount < MaxDatagrams
    /\ \E d \in Datagrams :
         LET k == dgCount + 1
             frames == AfterDecode(k, d)
         IN
         /\ dgCount' = k
         /\ dgLog' = Append(dgLog, d)
         /\ pendFrames' = frames
         /\ pendErr' = IF d.ok THEN "none" ELSE "decode"
         /\ rpc' = DecodeRoute(d, frames)
    /\ lastRead' = "datagram"
    /\ readsAfterStop' = CountAfterStop
    /\ UNCHANGED <<nc, negStatus, sockNeg, sockC2D, sockD2C, stopClosed,
                   doneClosed, cpc, closeErrs,
                   closeTried, closeRet, sendLog, rcv, lastRecv, errCount,
                   delivered, bufVars,
                   frVars, fsVars>>

ChanReady_buffered == TRUE

\* rcvFrameCh and rcvErrCh are made without a capacity: a send completes
\* only while a consumer is blocked in Receive.
ChanReady == rcv = "blocked"

AfterFrames_first(rest) == "top"

\* After the last frame of a datagram the loop goes round again.
AfterFrames(rest) == IF rest = <<>> THEN "top" ELSE "sendFrame"

\* case c.rcvErrCh <- err: continue
DeliverErr ==
    /\ rpc = "sendErr"
    /\ ChanReady
    /\ LET r == [kind |-> "err", dg |-> IF pendErr = "decode"
                                        THEN dgCount ELSE 0, idx |-> 0] IN
         /\ lastRecv' = r
         /\ delivered' = Append(delivered, r)
    /\ rcv' = "idle"
    /\ rpc' = "top"
    /\ pendErr' = "none"
    /\ UNCHANGED <<nc, negStatus, sockNeg, sockC2D, sockD2C, pendFrames,
                   stopClosed, doneClosed, cpc, closeErrs,
                   closeTried, closeRet, sendLog, dgCount, dgLog,
                   errCount, readsAfterStop, lastRead, bufVars,
                   frVars, fsVars>>

\* case <-c.rcvStopCh: return, while offering an error.
StopAtErr ==
    /\ rpc = "sendErr"
    /\ StopReady
    /\ rpc' = "exited"
    /\ doneClosed' = TRUE
    /\ UNCHANGED <<nc, negStatus, sockNeg, sockC2D, sockD2C, pendErr,
                   pendFrames, stopClosed, cpc, closeErrs,
                   closeTried, closeRet, sendLog, rcv, lastRecv,
                   dgCount, dgLog, errCount, delivered, readsAfterStop,
                   lastRead, bufVars,
                   frVars, fsVars>>

\* case c.rcvFrameCh <- frame:
DeliverFrame ==
    /\ rpc = "sendFrame"
    /\ ChanReady
    /\ lastRecv' = Head(pendFrames)
    /\ delivered' = Append(delivered, Head(pendFrames))
    /\ rcv' = "idle"
    /\ pendFrames' = Tail(pendFrames)
    /\ rpc' = AfterFrames(Tail(pendFrames))
    /\ UNCHANGED <<nc, negStatus, sockNeg, sockC2D, sockD2C, pendErr,
                   stopClosed, doneClosed, cpc, closeErrs,
                   closeTried, closeRet, sendLog, dgCount, dgLog,
                   errCount, readsAfterStop, lastRead, bufVars,
                   frVars, fsVars>>

\* case <-c.rcvStopCh: with an empty body: the frame is dropped and the
\* range over the decoded frames goes on.
SkipFrame ==
    /\ rpc = "sendFrame"
    /\ StopReady
    /\ pendFrames' = Tail(pendFrames)
    /\ rpc' = AfterFrames(Tail(pendFrames))
    /\ UNCHANGED <<nc, negStatus, sockNeg, sockC2D, sockD2C, pendErr,
                   stopClosed, doneClosed, cpc, closeErrs,
                   closeTried, closeRet, sendLog, rcv, lastRecv,
                   dgCount, dgLog, errCount, delivered, readsAfterStop,
                   lastRead, bufVars,
                   frVars, fsVars>>

\* A consumer calls connection.Receive and blocks in its select.
ReceiveCall ==
    /\ nc = "ok"
    /\ rcv = "idle"
    /\ rcv' = "blocked"
    /\ UNCHANGED <<nc, negStatus, sockNeg, sockC2D, sockD2C, rpc, pendErr,
                   pendFrames, stopClosed, doneClosed, cpc, closeErrs,
                   closeTried, closeRet, sendLog,
                   lastRecv, dgCount, dgLog, errCount, delivered,
                   readsAfterStop, lastRead, bufVars,
                   frVars, fsVars>>

DoneObserved_nowait == TRUE

DoneObserved_never == FALSE

\* <-c.rcvDoneCh returns once receivePackets has closed the channel.
DoneObserved == doneClosed

\* Receive: case <-c.rcvDoneCh: return arnetworkal.Frame{}, false, nil
ReceiveDone ==
    /\ rcv = "blocked"
    /\ DoneObserved
    /\ rcv' = "idle"
    /\ lastRecv' = [kind |-> "done", dg |-> 0, idx |-> 0]
    /\ UNCHANGED <<nc, negStatus, sockNeg, sockC2D, sockD2C, rpc, pendErr,
                   pendFrames, stopClosed, doneClosed, cpc, closeErrs,
                   closeTried, closeRet, sendLog,
                   dgCount, dgLog, errCount, delivered, readsAfterStop,
                   lastRead, bufVars,
                   frVars, fsVars>>

\* Close: close(c.rcvStopCh)
CloseSignal ==
    /\ nc = "ok"
    /\ cpc = "idle"
    /\ stopClosed' = TRUE
    /\ cpc' = "waitDone"
    /\ UNCHANGED <<nc, negStatus, sockNeg, sockC2D, sockD2C, rpc, pendErr,
                   pendFrames, doneClosed, closeErrs,
                   closeTried, closeRet, sendLog, rcv, lastRecv,
                   dgCount, dgLog, errCount, delivered, readsAfterStop,
                   lastRead, bufVars,
                   frVars, fsVars>>

CloseTargets_abort(failed) ==
    IF "c2d" \in failed THEN {"c2d"} ELSE {"c2d", "d2c"}

\* c.c2dConn.Close() and then c.d2cConn.Close() are both called, whether
\* or not the first fails.
CloseTargets(failed) == {"c2d", "d2c"}

\* if len(errStrs) > 0 { return fmt.Errorf(...) }; return nil
CloseReturn(failed) == IF failed # {} THEN "error" ELSE "nil"

\* Close, after the wait: both sockets are closed, and the closes that
\* fail are reported together.
CloseFinish ==
    /\ cpc = "waitDone"
    /\ DoneObserved
    /\ \E failed \in SUBSET {"c2d", "d2c"} :
         /\ closeErrs' = failed
         /\ closeTried' = CloseTargets(failed)
         /\ closeRet' = CloseReturn(failed)
         /\ sockC2D' = IF "c2d" \in CloseTargets(failed)
                       THEN "closed" ELSE sockC2D
         /\ sockD2C' = IF "d2c" \in CloseTargets(failed)
                       THEN "closed" ELSE sockD2C
    /\ cpc' = "returned"
    /\ UNCHANGED <<sendLog, nc, negStatus, sockNeg, rpc, pendErr, pendFrames,
                   stopClosed, doneClosed, rcv, lastRecv, dgCount, dgLog,
                   errCount, delivered, readsAfterStop, lastRead, bufVars,
                   frVars, fsVars>>

\* The lengths of encoded frames handed to Send: short, the largest UDP
\* payload, and one byte more.
EncodedSizes == {1, maxUDPDataBytes, maxUDPDataBytes + 1}

WriteOutcomes_truncate(n) ==
    IF n > maxUDPDataBytes
    THEN {[err |-> FALSE, wire |-> maxUDPDataBytes]}
    ELSE {[err |-> FALSE, wire |-> n], [err |-> TRUE, wire |-> 0]}

\* c.c2dConn.Write(...) on a connected UDP socket: one datagram with all
\* the bytes, or an error and no datagram; a message longer than the
\* largest UDP payload is refused by the socket (EMSGSIZE).
WriteOutcomes(n) ==
    IF n > maxUDPDataBytes
    THEN {[err |-> TRUE, wire |-> 0]}
    ELSE {[err |-> FALSE, wire |-> n], [err |-> TRUE, wire |-> 0]}

\* Send: c.c2dConn.Write(c.encodeFrame(frame)); an error of the write is
\* returned wrapped.  A write on a closed socket fails.
Send ==
    /\ nc = "ok"
    /\ Len(sendLog) < MaxSends
    /\ \E n \in EncodedSizes :
         \E w \in WriteOutcomes(n) :
            /\ sockC2D = "closed" => w.err
            /\ sendLog' = Append(sendLog,
                   [size |-> n, err |-> w.err, wire |-> w.wire])
    /\ UNCHANGED <<nc, negStatus, sockNeg, sockC2D, sockD2C, rpc, pendErr,
                   pendFrames, stopClosed, doneClosed, cpc, closeErrs,
                   closeTried, closeRet, rcv, lastRecv, dgCount, dgLog,
                   errCount, delivered, readsAfterStop, lastRead, bufVars,
                   frVars, fsVars>>

\* The receive goroutine's steps that need no partner.
LoopStep ==
    \/ LoopStop
    \/ SetDeadline
    \/ ReadFail
    \/ ReadDatagram
    \/ StopAtErr
    \/ SkipFrame

NextConn ==
    \/ \E fail \in FailPoints, status \in Statuses :
           NewConnection(fail, status)
    \/ LoopStop
    \/ SetDeadline
    \/ ReadFail
    \/ ReadDatagram
    \/ DeliverErr
    \/ StopAtErr
    \/ DeliverFrame
    \/ SkipFrame
    \/ ReceiveCall
    \/ ReceiveDone
    \/ CloseSignal
    \/ CloseFinish

\* No buffer is constructed: the Connection on its own.
InitConn == InitWith({}, {NoConfig}, 0)

\* The scheduler runs the receive goroutine and the caller of Close, and
\* the read deadline expires; nothing obliges a consumer to call Receive
\* or the device to send.
ConnFairness == WF_vars(LoopStep) /\ WF_vars(CloseFinish)

SpecConn == InitConn /\ [][NextConn]_vars /\ ConnFairness

\* A Connection used for sending only: the device sends nothing and
\* nobody calls Receive.
NextSend ==
    \/ \E fail \in FailPoints, status \in Statuses :
           NewConnection(fail, status)
    \/ Send
    \/ LoopStop
    \/ SetDeadline
    \/ ReadFail
    \/ StopAtErr
    \/ CloseSignal
    \/ CloseFinish

SpecSend == InitConn /\ [][NextSend]_vars

\* --------------------------------------------- frameReceiver.Receive

\* f.datagramBufferLock.Lock()
FRLock(c) ==
    /\ alive
    /\ frPc[c] = "idle"
    /\ frLock = 0
    /\ frLock' = c
    /\ frPc' = [frPc EXCEPT ![c] = "locked"]
    /\ UNCHANGED <<frBuf, frData, frRet, frReads, frLast, alive,
                   bufVars, connVars,
                   fsVars>>

\* f.conn.SetReadDeadline(...): on an error Receive returns it, and the
\* deferred Unlock runs.
FRDeadline(c) ==
    /\ alive
    /\ frPc[c] = "locked"
    /\ \E ok \in BOOLEAN :
         IF ok
         THEN /\ frPc' = [frPc EXCEPT ![c] = "read"]
              /\ UNCHANGED <<frLock, frRet>>
         ELSE /\ frPc' = [frPc EXCEPT ![c] = "idle"]
              /\ frLock' = 0
              /\ frRet' = [frRet EXCEPT ![c] =
                     [kind |-> "deadlineErr", data |-> NoData]]
    /\ UNCHANGED <<frBuf, frData, frReads, frLast, alive, bufVars, connVars,
                   fsVars>>

\* err.(net.Error) with Timeout(): log.Fatal("detected a probable
\* disconnection") logs and exits the process.
AliveAfter(e) == e # "timeout"

\* f.conn.ReadFromUDP(f.datagramBuffer) returns an error.
FRReadFail(c) ==
    /\ alive
    /\ frPc[c] = "read"
    /\ \E e \in ReadErrors :
         /\ frLast' = e
         /\ alive' = AliveAfter(e)
    /\ frPc' = [frPc EXCEPT ![c] = "idle"]
    /\ frLock' = 0
    /\ frRet' = [frRet EXCEPT ![c] = [kind |-> "readErr", data |-> NoData]]
    /\ UNCHANGED <<frBuf, frData, frReads, bufVars, connVars,
                   fsVars>>

CopyOf_alias(d) == [own |-> FALSE, bytes |-> 0]

\* data := make([]byte, bytesRead); copy(data, f.datagramBuffer[0:bytesRead])
\* gives a slice with an array of its own holding the bytes read; a slice
\* of f.datagramBuffer would have own = FALSE.
CopyOf(d) == [own |-> TRUE, bytes |-> d]

\* The bytes seen through a slice: its own array's, or the datagram
\* buffer's for a slice of the buffer.
BytesOf(slice) == IF slice.own THEN slice.bytes ELSE frBuf

\* ReadFromUDP fills f.datagramBuffer, and Receive copies the bytes read.
FRRead(c) ==
    /\ alive
    /\ frPc[c] = "read"
    /\ frReads < MaxReads
    /\ \E d \in Payloads :
         /\ frBuf' = d
         /\ frData' = [frData EXCEPT ![c] = CopyOf(d)]
    /\ frReads' = frReads + 1
    /\ frLast' = "datagram"
    /\ frPc' = [frPc EXCEPT ![c] = "decode"]
    /\ UNCHANGED <<frLock, frRet, alive, bufVars, connVars,
                   fsVars>>

\* return f.decodeDatagram(data), and the deferred Unlock.
FRReturn(c) ==
    /\ alive
    /\ frPc[c] = "decode"
    /\ \E ok \in BOOLEAN :
         frRet' = [frRet EXCEPT ![c] =
             IF ok THEN [kind |-> "frames", data |-> frData[c]]
             ELSE [kind |-> "decodeErr", data |-> NoData]]
    /\ frPc' = [frPc EXCEPT ![c] = "idle"]
    /\ frLock' = 0
    /\ UNCHANGED <<frBuf, frData, frReads, frLast, alive, bufVars, connVars,
                   fsVars>>

NextFR ==
    \E c \in Callers :
        \/ FRLock(c)
        \/ FRDeadline(c)
        \/ FRReadFail(c)
        \/ FRRead(c)
        \/ FRReturn(c)

InitFR == InitWith({}, {NoConfig}, 0)

SpecFR == InitFR /\ [][NextFR]_vars

\* ------------------------------------------ a session being shut down

\* One acknowledged buffer, with unbounded retries or none, on a Connection.
ShutdownConfigs ==
    [ FrameType : {"DataWithAck"}, MaxRetries : {-1, 0},
      Size : {1}, IsOverwriting : {FALSE} ]

InitShutdown == InitWith({1}, ShutdownConfigs, MaxItemsTwo)

\* The writer goroutine beside the Connection's receive goroutine and a
\* caller of Close; the device sends nothing and nobody calls Receive.
NextShutdown ==
    \/ \E b \in Buffers :
        \/ Enqueue(b)
        \/ TakeNext(b)
        \/ Attempt(b)
        \/ GiveUp(b)
        \/ AckArrives(b)
        \/ Timeout(b)
    \/ \E fail \in FailPoints, status \in Statuses :
           NewConnection(fail, status)
    \/ LoopStop
    \/ SetDeadline
    \/ ReadFail
    \/ StopAtErr
    \/ CloseSignal
    \/ CloseFinish

SpecShutdown ==
    InitShutdown /\ [][NextShutdown]_vars /\ Fairness /\ ConnFairness

\* ----------------------------------------- feature state: the handlers

\* The dispatcher invokes handler h with the decoded arguments; at most
\* `max` commands are dispatched in a run.
Dispatch(h, args, max) ==
    /\ hnd = NoCall
    /\ cmdCount < max
    /\ cmdCount' = cmdCount + 1
    /\ hnd' = [name |-> h, args |-> args, types |-> Schema[h],
               pc |-> "start", done |-> 0,
               heldSince |-> IF HObj(h) \in Objects
                             THEN rwReaders[HObj(h)] ELSE {}]
    /\ UNCHANGED <<rwReaders, rwWriter, rwPending, fields, accessories,
                   lastArgs, bufVars, connVars, frVars,
                   accSeen>>

\* The handler's first statement: Lock() announces a writer, which keeps
\* new readers out; a handler without Lock() goes straight to its body.
HBegin ==
    /\ hnd.pc = "start"
    /\ IF TakesLock(hnd.name)
       THEN /\ rwPending' = [rwPending EXCEPT ![HObj(hnd.name)] = TRUE]
            /\ hnd' = [hnd EXCEPT !.pc = "waitLock"]
       ELSE /\ hnd' = [hnd EXCEPT !.pc = "run"]
            /\ UNCHANGED rwPending
    /\ UNCHANGED <<rwReaders, rwWriter, fields, accessories, cmdCount,
                   lastArgs, bufVars, connVars, frVars,
                   accSeen>>

\* Lock() returns once no reader holds the lock.
HAcquire ==
    /\ hnd.pc = "waitLock"
    /\ rwReaders[HObj(hnd.name)] = {}
    /\ ~rwWriter[HObj(hnd.name)]
    /\ rwWriter' = [rwWriter EXCEPT ![HObj(hnd.name)] = TRUE]
    /\ rwPending' = [rwPending EXCEPT ![HObj(hnd.name)] = FALSE]
    /\ hnd' = [hnd EXCEPT !.pc = "run"]
    /\ UNCHANGED <<rwReaders, fields, accessories, cmdCount, lastArgs,
                   bufVars, connVars, frVars,
                   accSeen>>

\* The next assignment of a pilotingSettingsState or commonState handler.
HWrite ==
    /\ hnd.pc = "run"
    /\ HObj(hnd.name) # "accessoryState"
    /\ hnd.done < Steps(hnd.name)
    /\ IF Passes(FieldAsserts[hnd.name][hnd.done + 1], hnd.types)
       THEN /\ LET w == Writes(hnd.name)[hnd.done + 1] IN
                 fields' = [fields EXCEPT ![w.field] =
                                <<Convert(w.kind, hnd.args[w.arg])>>]
            /\ hnd' = [hnd EXCEPT !.done = @ + 1]
       ELSE /\ hnd' = [hnd EXCEPT !.pc = "panic"]
            /\ UNCHANGED fields
    /\ UNCHANGED <<rwReaders, rwWriter, rwPending, accessories, cmdCount,
                   lastArgs, bufVars, connVars, frVars,
                   accSeen>>

\* flags&bit == bit, for a single bit.
HasBit(flags, bit) == (flags \div bit) % 2 = 1

IsEmptyList_never(flags) == FALSE

\* 0x04: Empty
IsEmptyList(flags) == HasBit(flags, 4)

\* 0x08: Remove
IsRemove(flags) == HasBit(flags, 8)

Delete_all(m, id) == [i \in {} |-> m[i]]

\* delete(a.accessories, accessoryID)
Delete(m, id) == [i \in (DOMAIN m) \ {id} |-> m[i]]

\* acc = &accessory{id: accessoryID}
NewAccessory(id) ==
    [id |-> id, tipe |-> 0, uid |-> 0, softwareVersion |-> 0,
     batteryPercent |-> 0]

AccUpdate_fresh(h, acc, args) ==
    IF h = "connectedAccessories"
    THEN [NewAccessory(acc.id) EXCEPT !.tipe = args[2], !.uid = args[3],
                                      !.softwareVersion = args[4]]
    ELSE [NewAccessory(acc.id) EXCEPT !.batteryPercent = args[2]]

\* The assignments to the accessory after the look-up.
AccUpdate(h, acc, args) ==
    IF h = "connectedAccessories"
    THEN [acc EXCEPT !.tipe = args[2], !.uid = args[3],
                     !.softwareVersion = args[4]]
    ELSE [acc EXCEPT !.batteryPercent = args[2]]

\* The body of connectedAccessories and of battery on the map m.
AccApply(h, args, m) ==
    LET flags == args[Len(args)]
        id == args[1]
        acc == IF id \in DOMAIN m THEN m[id] ELSE NewAccessory(id)
    IN
    IF IsEmptyList(flags) THEN m
    ELSE IF IsRemove(flags) THEN Delete(m, id)
    ELSE [i \in (DOMAIN m) \cup {id} |->
              IF i = id THEN AccUpdate(h, acc, args) ELSE m[i]]

\* The body of an accessoryState handler, under the write lock.
AccBody ==
    /\ hnd.pc = "run"
    /\ HObj(hnd.name) = "accessoryState"
    /\ hnd.done < Steps(hnd.name)
    /\ IF Passes(AccessoryAsserts(hnd.name, hnd.args[Len(hnd.args)]),
                 hnd.types)
       THEN /\ accessories' = AccApply(hnd.name, hnd.args, accessories)
            /\ hnd' = [hnd EXCEPT !.done = @ + 1]
       ELSE /\ hnd' = [hnd EXCEPT !.pc = "panic"]
            /\ UNCHANGED accessories
    /\ UNCHANGED <<rwReaders, rwWriter, rwPending, fields, cmdCount,
                   lastArgs, bufVars, connVars, frVars,
                   accSeen>>

\* The handler returns nil; the deferred Unlock() runs if it took the lock.
HReturn ==
    /\ hnd.pc = "run"
    /\ hnd.done = Steps(hnd.name)
    /\ rwWriter' = IF TakesLock(hnd.name)
                   THEN [rwWriter EXCEPT ![HObj(hnd.name)] = FALSE]
                   ELSE rwWriter
    /\ lastArgs' = IF hnd.name \in DOMAIN lastArgs /\ Steps(hnd.name) > 0
                   THEN [lastArgs EXCEPT ![hnd.name] = <<hnd.args>>]
                   ELSE lastArgs
    /\ hnd' = NoCall
    /\ UNCHANGED <<rwReaders, rwPending, fields, accessories, cmdCount,
                   bufVars, connVars, frVars,
                   accSeen>>

\* RLock(): returns while no writer holds the lock or waits for it.
RLock(o, r) ==
    /\ r \notin rwReaders[o]
    /\ ~rwWriter[o]
    /\ ~rwPending[o]
    /\ rwReaders' = [rwReaders EXCEPT ![o] = @ \cup {r}]
    /\ UNCHANGED <<rwWriter, rwPending, fields, accessories, hnd, cmdCount,
                   lastArgs, bufVars, connVars, frVars,
                   accSeen>>

\* RUnlock()
RUnlock(o, r) ==
    /\ r \in rwReaders[o]
    /\ rwReaders' = [rwReaders EXCEPT ![o] = @ \ {r}]
    /\ hnd' = IF hnd # NoCall /\ HObj(hnd.name) = o
              THEN [hnd EXCEPT !.heldSince = @ \ {r}]
              ELSE hnd
    /\ UNCHANGED <<rwWriter, rwPending, fields, accessories, cmdCount,
                   lastArgs, bufVars, connVars, frVars,
                   accSeen>>

Accessor_always(f) ==
    IF fields[f] = Nil THEN <<Zero(f), TRUE>> ELSE <<fields[f][1], TRUE>>

\* The accessor of field f: (zero value, false) while the pointer is nil,
\* else (the value pointed to, true).
Accessor(f) ==
    IF fields[f] = Nil THEN <<Zero(f), FALSE>> ELSE <<fields[f][1], TRUE>>

\* pilotingSettingsState and commonState with their readers.
NextFeatures ==
    \/ \E h \in FeatureHandlers : \E a \in ArgsFor(h) :
           Dispatch(h, a, MaxCommands)
    \/ HBegin
    \/ HAcquire
    \/ HWrite
    \/ HReturn
    \/ \E o \in {"pilotingSettingsState", "commonState"}, r \in Readers :
           RLock(o, r) \/ RUnlock(o, r)

InitFeatures == InitWith({}, {NoConfig}, 0)

SpecFeatures == InitFeatures /\ [][NextFeatures]_vars

\* Every registered command of the four features, handled one at a time.
NextDispatch ==
    \/ \E h \in DOMAIN HandlerTable : \E a \in ArgsFor(h) :
           Dispatch(h, a, MaxDispatches)
    \/ HBegin
    \/ HAcquire
    \/ HWrite
    \/ AccBody
    \/ HReturn

InitDispatch == InitWith({}, {NoConfig}, 0)

SpecDispatch == InitDispatch /\ [][NextDispatch]_vars

\* Accessories() returns a.accessories, the map the handlers work on: a Go
\* map value is a reference, so what the caller holds is that same map.
AccessoriesResult == [own |-> FALSE, entries |-> NoAccessories]

\* The entries seen through a map value: its own, or those of
\* a.accessories for the map Accessories() returned.
EntriesOf(m) == IF m.own THEN m.entries ELSE accessories

\* A reader holding the read lock calls Accessories() and looks at the
\* map.
GetAccessories(r) ==
    /\ r \in rwReaders["accessoryState"]
    /\ accSeen[r] = <<>>
    /\ accSeen' = [accSeen EXCEPT ![r] =
           <<[map |-> AccessoriesResult,
              entries |-> EntriesOf(AccessoriesResult)]>>]
    /\ UNCHANGED <<rwReaders, rwWriter, rwPending, fields, accessories, hnd,
                   cmdCount, lastArgs, bufVars, connVars, frVars>>

\* accessoryState, its readers, and a reader that takes the map.
NextSnapshot ==
    \/ \E h \in DOMAIN AccessoryHandlers : \E a \in ArgsFor(h) :
           Dispatch(h, a, MaxAccessoryCommands)
    \/ HBegin
    \/ HAcquire
    \/ AccBody
    \/ HReturn
    \/ RLock("accessoryState", 1) \/ RUnlock("accessoryState", 1)
    \/ GetAccessories(1)

InitSnapshot == InitWith({}, {NoConfig}, 0)

SpecSnapshot == InitSnapshot /\ [][NextSnapshot]_vars

\* accessoryState with its readers.
NextAccessory ==
    \/ \E h \in DOMAIN AccessoryHandlers : \E a \in ArgsFor(h) :
           Dispatch(h, a, MaxAccessoryCommands)
    \/ HBegin
    \/ HAcquire
    \/ AccBody
    \/ HReturn
    \/ \E r \in Readers :
           RLock("accessoryState", r) \/ RUnlock("accessoryState", r)

InitAccessory == InitWith({}, {NoConfig}, 0)

SpecAccessory == InitAccessory /\ [][NextAccessory]_vars

\* ------------------------------------------------------------ properties

\* Number of times item i of buffer b was handed to the Connection.
SendsOf(b, i) ==
    Cardinality({k \in DOMAIN sentLog[b] : sentLog[b][k].id = i})

SentIds(b) == {sentLog[b][k].id : k \in DOMAIN sentLog[b]}

FinishedIds(b) == {finished[b][k].id : k \in DOMAIN finished[b]}

Acknowledged(b) == cfg[b].FrameType = "DataWithAck"

\* C1: on a DataWithAck buffer with MaxRetries = R >= 0, an item for which no
\* acknowledgment arrives is handed to the Connection at most R+1 times
\* while it is being written, and exactly R+1 times when writeFrame gives
\* it up.
C1_RetryBound ==
    \A b \in bufs :
        (Acknowledged(b) /\ cfg[b].MaxRetries >= 0) =>
            /\ \A k \in DOMAIN finished[b] :
                 ~finished[b][k].sawAck =>
                     /\ finished[b][k].how = "exhausted"
                     /\ finished[b][k].sends = cfg[b].MaxRetries + 1
            /\ (pc[b] # "range" /\ ~sawAck[b]) =>
                 SendsOf(b, frame[b].id) <= cfg[b].MaxRetries + 1

C1_Witness ==
    /\ Acknowledged(1) /\ cfg[1].MaxRetries = 2
    /\ Len(finished[1]) > 0
    /\ ~finished[1][1].sawAck
    /\ finished[1][1].how = "exhausted"
    /\ finished[1][1].sends = 3

\* C2 (as claimed): on a Data buffer every queued item is handed to the
\* Connection exactly once, whatever MaxRetries is.
C2_DataSentOnce ==
    \A b \in bufs :
        cfg[b].FrameType = "Data" =>
            \A i \in 1..enqueued[b] : SendsOf(b, i) <= 1

\* C3: when the writer of a DataWithAck buffer receives an Ack whose Data is
\* the decimal text of the sequence number of the latest attempt, the item
\* is finished as acked, the writer is back at its range loop (or has just
\* taken the next item), and a finished item is never sent again.
C3_AckedIsTerminal ==
    \A b \in bufs :
        /\ (wake[b] = "ack" /\ ack[b] = FormatDecimal(netFrame[b].Seq)) =>
              /\ Len(finished[b]) > 0
              /\ finished[b][Len(finished[b])].how = "acked"
              /\ finished[b][Len(finished[b])].id =
                     sentLog[b][Len(sentLog[b])].id
              /\ \/ pc[b] = "range"
                 \/ /\ pc[b] = "for"
                    /\ attempts[b] = 0
                    /\ frame[b].id # finished[b][Len(finished[b])].id
        /\ \A k \in DOMAIN finished[b] :
              finished[b][k].how = "acked" =>
                  SendsOf(b, finished[b][k].id) = finished[b][k].sends

C3_Witness ==
    /\ Acknowledged(1)
    /\ Len(finished[1]) > 0
    /\ finished[1][1].how = "acked"
    /\ finished[1][1].sends = 2
    /\ Len(sentLog[1]) = 3
    /\ sentLog[1][3].id # finished[1][1].id

\* C4 (as claimed): every re-send of an item of a DataWithAck buffer follows
\* an acknowledgment timeout.
C4_RetryOnlyOnTimeout ==
    \A b \in bufs :
        (Acknowledged(b) /\ lastSend[b].attempt > 0) =>
            lastSend[b].after = "timeout"

\* C5: two frames a buffer hands to the Connection one after the other,
\* first attempts and retries alike, carry sequence numbers s and
\* (s+1) mod 256, the first frame of all carrying 0.
C5_SeqMonotonic ==
    \A b \in bufs :
        /\ Len(prevSent[b]) >= 1 => prevSent[b][Len(prevSent[b])] \in 0..255
        /\ Len(prevSent[b]) = 2 =>
              prevSent[b][2] = (prevSent[b][1] + 1) % 256
        /\ prevSent[b] # <<>> => netFrame[b].Seq = prevSent[b][Len(prevSent[b])]

C5_Witness ==
    /\ prevSent[1] = <<255, 0>>
    /\ lastSend[1].attempt > 0

\* Item i of buffer b, queued behind an exhausted item, is eventually sent
\* or evicted from the queue.
C6_Item(b, i) ==
    ( /\ Acknowledged(b)
      /\ \E k \in DOMAIN finished[b] :
            finished[b][k].how = "exhausted" /\ finished[b][k].id < i
      /\ \E k \in DOMAIN outCh[b] : outCh[b][k].id = i )
    ~> ( \/ i \in SentIds(b)
         \/ /\ \A k \in DOMAIN outCh[b] : outCh[b][k].id # i
            /\ frame[b].id # i )

\* C6: once a DataWithAck item has exhausted its retries, an item waiting in
\* the queue behind it is eventually handed to the Connection, unless the
\* buffer's overwrite policy evicts it first.
C6_ContinuesAfterFailure ==
    \A b \in Buffers : \A i \in 1..MaxItems : C6_Item(b, i)

C6_Witness ==
    /\ Acknowledged(1)
    /\ Len(finished[1]) > 0
    /\ finished[1][1].how = "exhausted"
    /\ ~finished[1][1].sawAck
    /\ finished[1][1].id = 1
    /\ 2 \in SentIds(1)

\* C7 (as claimed): a DataWithAck item abandoned after its last timeout has
\* been reported, to the caller or in the log, by the time writeFrame has
\* returned. writeFrame returns nothing to its caller, so the report can
\* only be a line of the log.
C7_FailureReported ==
    \A b \in bufs :
        \A k \in DOMAIN finished[b] :
            ( /\ Acknowledged(b)
              /\ finished[b][k].how = "exhausted"
              /\ ~finished[b][k].sawAck ) =>
                logs[b] # {}

\* C8: a buffer has at most one item inside writeFrame, and while its
\* writer waits in the select that item is the only one that has been sent
\* and has not finished.
C8_OneInFlight ==
    \A b \in bufs :
        /\ Cardinality(inflight[b]) <= 1
        /\ pc[b] = "select" =>
              /\ inflight[b] = {frame[b].id}
              /\ SentIds(b) \ FinishedIds(b) = {frame[b].id}

C8_Witness ==
    /\ pc[1] = "select"
    /\ frame[1].id = 1
    /\ attempts[1] = 1
    /\ Len(outCh[1]) = 1

\* C9: a buffer sends its items in the order they were queued, and every
\* attempt of an item comes after the preceding item has finished.
C9_Fifo ==
    \A b \in bufs :
        /\ \A j, k \in DOMAIN sentLog[b] :
              j < k => sentLog[b][j].id <= sentLog[b][k].id
        /\ \A i \in SentIds(b) :
              \A j \in SentIds(b) : j < i => j \in FinishedIds(b)
        /\ \A j, k \in DOMAIN finished[b] :
              j < k => finished[b][j].id < finished[b][k].id

C9_Witness ==
    /\ cfg[1].Size = 2
    /\ Len(sentLog[1]) = 4
    /\ sentLog[1][2].id = 1
    /\ sentLog[1][3].id = 2
    /\ Len(finished[1]) = 2

\* C10: whatever the other buffer is doing (waiting for an acknowledgment,
\* retrying without bound), the writer of a buffer can take its next step:
\* receive a queued frame when it is at its range loop, send or return
\* when it is at the top of writeFrame's loop, time out when it waits.
C10_Independent ==
    \A b \in bufs :
        /\ (pc[b] = "range" /\ outCh[b] # <<>>) => ENABLED TakeNext(b)
        /\ (pc[b] = "for" /\ attempts[b] < MaxAttempts) =>
              ENABLED (Attempt(b) \/ GiveUp(b))
        /\ pc[b] = "select" => ENABLED Timeout(b)

C10_Witness ==
    /\ cfg[1].MaxRetries = -1
    /\ pc[1] = "select"
    /\ attempts[1] >= 2
    /\ finished[1] = <<>>
    /\ pc[2] = "for"
    /\ attempts[2] = 0
    /\ ENABLED Attempt(2)


\* C12: one call to Close returns, whatever the receive loop is doing when
\* rcvStopCh is closed (blocked in the timed read, or offering a frame or
\* an error that no consumer takes); at most one read ends after the stop
\* signal; and once Close has returned both sockets are closed and the
\* receive goroutine has exited.
C12_CloseTerminates ==
    /\ (cpc = "waitDone") ~> (cpc = "returned")
    /\ [](cpc = "returned" =>
            /\ sockC2D = "closed"
            /\ sockD2C = "closed"
            /\ rpc = "exited")
    /\ [](readsAfterStop <= 1)

\* Close was called during a read, the datagram read was offered to no
\* consumer, and Close has returned.
C12_Witness ==
    /\ cpc = "returned"
    /\ readsAfterStop = 1
    /\ dgCount > 0
    /\ lastRead = "datagram"
    /\ delivered = <<>>
    /\ rcv = "idle"


\* C13: Close closes rcvStopCh, then waits for rcvDoneCh, and only then
\* closes the sockets: while Close waits both sockets are still open, and
\* a socket is only ever closed after the stop signal was given and the
\* receive goroutine has exited.
C13_CloseOrdering ==
    /\ cpc = "waitDone" =>
         /\ stopClosed
         /\ sockC2D = "open"
         /\ sockD2C = "open"
    /\ (sockC2D = "closed" \/ sockD2C = "closed") =>
         /\ stopClosed
         /\ doneClosed
         /\ rpc = "exited"

\* Close has closed the sockets after a run in which a frame was handed
\* to a consumer.
C13_Witness ==
    /\ cpc = "returned"
    /\ sockC2D = "closed"
    /\ sockD2C = "closed"
    /\ Len(delivered) > 0

\* C14: the receive loop has exited only if rcvStopCh was closed; a read
\* error other than a timeout, a SetReadDeadline failure and a decode
\* failure each put the loop in the hand-off of that error on rcvErrCh,
\* and from the hand-off the loop goes round again unless rcvStopCh is
\* closed.
C14_ErrorsDoNotExit ==
    /\ [](rpc = "exited" => stopClosed)
    /\ [][ /\ errCount' > errCount => rpc' = "sendErr" /\ pendErr' # "none"
           /\ (dgCount' > dgCount /\ ~dgLog'[dgCount'].ok) =>
                 rpc' = "sendErr" /\ pendErr' = "decode"
           /\ (rpc = "sendErr" /\ rpc' # rpc) =>
                 \/ rpc' = "top" /\ Len(delivered') = Len(delivered) + 1
                 \/ rpc' = "exited" /\ stopClosed ]_vars

\* A socket error and a decode error have both been delivered, and the
\* loop is reading again with no stop signal given.
C14_Witness ==
    /\ rpc = "read"
    /\ ~stopClosed
    /\ \E i, j \in DOMAIN delivered :
         /\ delivered[i].kind = "err" /\ delivered[i].dg = 0
         /\ delivered[j].kind = "err" /\ delivered[j].dg > 0

\* C15: when the read ends with a timeout, nothing is offered on rcvErrCh
\* or rcvFrameCh and nothing is delivered; the loop is back at its top,
\* where it looks at rcvStopCh before the next read.
C15_TimeoutIsSilent ==
    [][ (rpc = "read" /\ lastRead' = "timeout") =>
            /\ rpc' = "top"
            /\ pendErr' = "none"
            /\ pendFrames' = <<>>
            /\ delivered' = delivered
            /\ errCount' = errCount
            /\ lastRecv' = lastRecv ]_vars

\* A read has timed out while a consumer was blocked in Receive: the
\* consumer is still blocked and nothing was delivered.
C15_Witness ==
    /\ lastRead = "timeout"
    /\ rpc = "top"
    /\ ~stopClosed
    /\ rcv = "blocked"
    /\ delivered = <<>>

\* A step of the receive goroutine, alone or with a consumer.
LoopMove == LoopStep \/ DeliverErr \/ DeliverFrame

\* C16: the receive goroutine is never suspended by a hand-off: while
\* it runs it can always take a step (the timed read ends by itself), even
\* when no consumer is calling Receive.
C16_HandoffNeverBlocks ==
    (rpc \in {"top", "read", "sendErr", "sendFrame"}) => ENABLED LoopMove

\* What Receive calls returned for datagram k, of one kind.
DeliveredOf(k, kind) ==
    SelectSeq(delivered, LAMBDA r : r.dg = k /\ r.kind = kind)

\* The loop has finished with datagram k.
Handled(k) == k < dgCount \/ rpc \in {"top", "read"}

\* C17: for a datagram whose decoding fails, at most one error and no
\* frame is delivered, and exactly one error once the loop has gone on
\* without a stop signal; for a datagram that decodes, no error is
\* delivered and its frames are delivered in order without repetition, with
\* none left out while no stop signal is given, and all of them once the
\* loop has gone on, whatever happened to earlier datagrams.
C17_DecodeErrorsIsolated ==
    \A k \in 1..dgCount :
        IF dgLog[k].ok
        THEN /\ DeliveredOf(k, "err") = <<>>
             /\ \A i, j \in DOMAIN DeliveredOf(k, "frame") :
                  i < j => DeliveredOf(k, "frame")[i].idx <
                           DeliveredOf(k, "frame")[j].idx
             /\ ~stopClosed => \E n \in 0..dgLog[k].n :
                  DeliveredOf(k, "frame") = SubSeq(FramesOf(k, dgLog[k]), 1, n)
             /\ (Handled(k) /\ ~stopClosed) =>
                  DeliveredOf(k, "frame") = FramesOf(k, dgLog[k])
        ELSE /\ DeliveredOf(k, "frame") = <<>>
             /\ Len(DeliveredOf(k, "err")) <= 1
             /\ (Handled(k) /\ ~stopClosed) =>
                  Len(DeliveredOf(k, "err")) = 1

\* The first datagram failed to decode and the second carried two frames:
\* one error, then the two frames, were delivered.
C17_Witness ==
    /\ dgCount = 2
    /\ ~dgLog[1].ok
    /\ dgLog[1].n = 2
    /\ dgLog[2] = [ok |-> TRUE, n |-> 2]
    /\ ~stopClosed
    /\ delivered = << [kind |-> "err", dg |-> 1, idx |-> 0],
                      [kind |-> "frame", dg |-> 2, idx |-> 1],
                      [kind |-> "frame", dg |-> 2, idx |-> 2] >>

\* C19: when the negotiation response carries a status other than 0,
\* NewConnection returns the connection-refused error and no connection:
\* neither UDP socket is opened and receivePackets is not started.
C19_RefusalOpensNothing ==
    (\E st \in negStatus : st # 0) =>
        /\ nc = "refused"
        /\ sockC2D = "nil"
        /\ sockD2C = "nil"
        /\ rpc = "notStarted"
        /\ sockNeg = "closed"

\* The device answered the negotiation with status 1.
C19_Witness ==
    /\ negStatus = {1}
    /\ nc = "refused"


\* C18: a read timeout in frameReceiver.Receive leaves the process
\* running: after it, Receive has returned, the lock is free, and a caller
\* can call Receive again.
C18_TimeoutIsTransient ==
    frLast = "timeout" =>
        /\ alive
        /\ \E c \in Callers : ENABLED FRLock(c)


WriterExited(b) == pc[b] \notin {"range", "for", "select"}

\* C11: once Close has given the stop signal, every buffer's writer
\* goroutine eventually exits, a writer awaiting an acknowledgment with
\* MaxRetries = -1 included.
C11_WritersExit ==
    stopClosed ~> (\A b \in bufs : WriterExited(b))


\* C21: a buffer of capacity C without IsOverwriting never queues more than
\* C frames, and an enqueue that finds C frames queued is answered
\* BufferFull and leaves the queue as it was.
C21_RejectWhenFull ==
    /\ [](\A b \in bufs :
            ~cfg[b].IsOverwriting => Len(outCh[b]) <= cfg[b].Size)
    /\ [][\A b \in bufs :
            ( /\ enqueued'[b] = enqueued[b] + 1
              /\ ~cfg[b].IsOverwriting
              /\ Len(outCh[b]) = cfg[b].Size ) =>
                /\ outCh'[b] = outCh[b]
                /\ enqResult'[b] = "BufferFull" ]_vars

\* A buffer of capacity 1 holding the first frame has rejected the second.
C21_Witness ==
    \E b \in bufs :
        /\ ~cfg[b].IsOverwriting
        /\ enqueued[b] = cfg[b].Size + 1
        /\ enqResult[b] = "BufferFull"
        /\ Len(outCh[b]) = cfg[b].Size
        /\ outCh[b][1].id = 1

\* C24: all the attempts for one queued item carry the same payload, the
\* same buffer ID and the same frame type; consecutive attempts differ in
\* their sequence number.
C24_RetriesResendSameFrame ==
    \A b \in bufs :
        \A j, k \in DOMAIN sentLog[b] :
            (j < k /\ sentLog[b][j].id = sentLog[b][k].id) =>
                /\ sentLog[b][j].Data = sentLog[b][k].Data
                /\ sentLog[b][j].ID = sentLog[b][k].ID
                /\ sentLog[b][j].Type = sentLog[b][k].Type
                /\ (k = j + 1 => sentLog[b][j].Seq # sentLog[b][k].Seq)

\* One item of an acknowledged buffer has been sent three times.
C24_Witness ==
    \E b \in bufs :
        /\ cfg[b].FrameType = "DataWithAck"
        /\ Len(sentLog[b]) >= 3
        /\ sentLog[b][1].id = sentLog[b][3].id
        /\ lastSend[b].after = "timeout"


\* C25: when Close has returned, Close was called on both sockets, whichever
\* closes failed, and it returned an error exactly when at least one of
\* the two closes failed.
C25_CloseClosesBoth ==
    cpc = "returned" =>
        /\ closeTried = {"c2d", "d2c"}
        /\ sockC2D = "closed"
        /\ sockD2C = "closed"
        /\ closeRet \in {"nil", "error"}
        /\ closeRet = "error" <=> closeErrs # {}

\* Closing the outbound socket failed: the inbound socket was closed all
\* the same and Close returned an error.
C25_Witness ==
    /\ cpc = "returned"
    /\ closeErrs = {"c2d"}
    /\ sockD2C = "closed"
    /\ closeRet = "error"

FramesDelivered == SelectSeq(delivered, LAMBDA r : r.kind = "frame")

\* The frames of the first k datagrams that the loop has handed off so
\* far if none was dropped: all frames of the datagrams it has finished
\* with, and of the datagram in hand those no longer pending.
RECURSIVE FramesDue(_)
FramesDue(k) ==
    IF k = 0 THEN <<>>
    ELSE FramesDue(k - 1) \o
         ( IF ~dgLog[k].ok THEN <<>>
           ELSE IF Handled(k) THEN FramesOf(k, dgLog[k])
           ELSE SubSeq(FramesOf(k, dgLog[k]), 1,
                       dgLog[k].n - Len(pendFrames)) )

\* C27: while no stop signal is given, what Receive callers have got is
\* the frames of the datagrams read, datagram after datagram and in decoded
\* order within a datagram, each frame once and none missing.
C27_FramesInOrderOnce ==
    ~stopClosed => FramesDelivered = FramesDue(dgCount)

\* Two datagrams of two frames each were read and their four frames
\* delivered.
C27_Witness ==
    /\ ~stopClosed
    /\ dgCount = 2
    /\ dgLog[1] = [ok |-> TRUE, n |-> 2]
    /\ dgLog[2] = [ok |-> TRUE, n |-> 2]
    /\ Len(FramesDelivered) = 4
    /\ rpc = "read"

\* The accessoryState handler in progress, its list_flags and accessory ID.
AccRunning == hnd.name \in DOMAIN AccessoryHandlers

AccFlags == hnd.args[Len(hnd.args)]

AccID == hnd.args[1]

\* C29: a ConnectedAccessories or Battery command whose list_flags has bit
\* 0x04 set leaves the accessories map unchanged at every step of its
\* handler, whatever its other arguments are and also when bit 0x08 is set.
C29_EmptyFlagChangesNothing ==
    [][(AccRunning /\ (AccFlags \div 4) % 2 = 1)
           => accessories' = accessories]_vars

\* C29 witness: a handler called with Empty and Remove both set has run its
\* body while the accessory it names is in the map.
C29_Witness ==
    /\ AccRunning
    /\ AccFlags = 12
    /\ hnd.done = 1
    /\ AccID \in DOMAIN accessories

\* C30: a ConnectedAccessories or Battery command with bit 0x08 set and bit
\* 0x04 clear removes the entry with the given accessory ID and nothing
\* else: after its body the map has the former IDs without the given one
\* and every other entry as it was, and no other step of the handler
\* changes the map.
C30_RemoveFlagRemovesOne ==
    [][(AccRunning /\ (AccFlags \div 8) % 2 = 1 /\ (AccFlags \div 4) % 2 = 0)
           => IF hnd.done = 0 /\ hnd'.done = 1
              THEN /\ DOMAIN accessories' = (DOMAIN accessories) \ {AccID}
                   /\ \A i \in DOMAIN accessories' :
                          accessories'[i] = accessories[i]
              ELSE accessories' = accessories]_vars

\* C30 witness: a handler called with Remove has run its body, the
\* accessory it names is not in the map and another accessory still is.
C30_Witness ==
    /\ AccRunning
    /\ AccFlags = 8
    /\ hnd.done = 1
    /\ AccID \notin DOMAIN accessories
    /\ DOMAIN accessories # {}

\* C22: while a reader holds the read lock of a feature state object, no
\* attribute of that object changes.
C22_ReadLockSnapshot ==
    [][\A o \in Objects :
           rwReaders[o] # {}
               => /\ \A f \in FieldsOf(o) : fields'[f] = fields[f]
                  /\ o = "accessoryState" => accessories' = accessories]_vars

\* C28: a state-updating handler invoked while readers hold the feature
\* state's read lock does not complete until every one of those read locks
\* has been released.
C28_HandlerWaitsForReaders ==
    [][(hnd # NoCall /\ hnd' = NoCall /\ Steps(hnd.name) > 0)
           => hnd.heldSince = {}]_vars

\* For each field, the handler that sets it and its assignment to it.
SetterOf ==
    [f \in AllFields |->
        CHOOSE h \in FeatureHandlers :
            \E i \in DOMAIN Writes(h) : Writes(h)[i].field = f]

SettingOf ==
    [f \in AllFields |->
        LET ws == Writes(SetterOf[f]) IN
        ws[CHOOSE i \in DOMAIN ws : ws[i].field = f]]

\* What the accessor of f is to return, from the commands handled so far.
Reported(f) ==
    LET last == lastArgs[SetterOf[f]] IN
    IF last = <<>> THEN <<Zero(f), FALSE>>
    ELSE <<Convert(SettingOf[f].kind, last[1][SettingOf[f].arg]), TRUE>>

\* C23: whenever the handler that sets a field is not in the middle of a
\* run, the field's accessor returns (zero value, false) if that handler
\* has never run and (value of its most recent command, true) otherwise;
\* and at no step does an accessor's reported flag go from true to false.
C23_ReportedVsDefault ==
    /\ [](\A f \in AllFields :
              hnd.name # SetterOf[f] => Accessor(f) = Reported(f))
    /\ [][\A f \in AllFields : Accessor(f)[2] => Accessor(f)'[2]]_vars

\* C23 witness: after two commands the accessors of their fields return
\* the reported values, one of them a reported false, while a field whose
\* command never came still returns (0, false).
C23_Witness ==
    /\ hnd = NoCall
    /\ cmdCount = 2
    /\ Accessor("rssi") = <<11, TRUE>>
    /\ Accessor("geofencingEnabled") = <<FALSE, TRUE>>
    /\ Accessor("maxTilt") = <<0, FALSE>>

\* The entry the running handler looks up: the one in the map, or a new
\* accessory with the given ID.
AccFound ==
    IF AccID \in DOMAIN accessories THEN accessories[AccID]
    ELSE [id |-> AccID, tipe |-> 0, uid |-> 0, softwareVersion |-> 0,
          batteryPercent |-> 0]

\* C31: with neither Empty nor Remove set, the body of ConnectedAccessories
\* leaves the map with the former IDs and the given one, the given entry
\* having the command's type, uid and software version and the battery
\* level it had (that of a new entry if it was absent); the body of Battery
\* likewise sets the battery level only; every other entry is as it was,
\* and no other step of the handler changes the map.
C31_AddOrUpdate ==
    [][(AccRunning /\ (AccFlags \div 8) % 2 = 0 /\ (AccFlags \div 4) % 2 = 0)
           => IF hnd.done = 0 /\ hnd'.done = 1
              THEN /\ DOMAIN accessories' = (DOMAIN accessories) \cup {AccID}
                   /\ \A i \in (DOMAIN accessories) \ {AccID} :
                          accessories'[i] = accessories[i]
                   /\ accessories'[AccID] =
                          IF hnd.name = "connectedAccessories"
                          THEN [id |-> AccID,
                                tipe |-> hnd.args[2],
                                uid |-> hnd.args[3],
                                softwareVersion |-> hnd.args[4],
                                batteryPercent |-> AccFound.batteryPercent]
                          ELSE [id |-> AccID,
                                tipe |-> AccFound.tipe,
                                uid |-> AccFound.uid,
                                softwareVersion |-> AccFound.softwareVersion,
                                batteryPercent |-> hnd.args[2]]
              ELSE accessories' = accessories]_vars

\* C31 witness: ConnectedAccessories has updated an accessory whose battery
\* level had been reported, while another accessory is in the map.
C31_Witness ==
    /\ AccRunning
    /\ hnd.name = "connectedAccessories"
    /\ AccFlags = 0
    /\ hnd.done = 1
    /\ AccID \in DOMAIN accessories
    /\ accessories[AccID].batteryPercent = 12
    /\ accessories[AccID].tipe = hnd.args[2]
    /\ DOMAIN accessories # {AccID}

\* C32: a handler is invoked with as many arguments as its command is
\* registered with and of the registered types, and then never panics:
\* none of its type assertions indexes past the end of the argument list
\* or names another type.
C32_SchemaHandlerAgreement ==
    /\ hnd.pc # "panic"
    /\ Len(hnd.args) = Len(hnd.types)
    /\ hnd.name \in DOMAIN FieldAsserts
           => /\ Len(FieldAsserts[hnd.name]) = Steps(hnd.name)
              /\ \A k \in DOMAIN FieldAsserts[hnd.name] :
                     Passes(FieldAsserts[hnd.name][k], Schema[hnd.name])
    /\ hnd.name \in DOMAIN AccessoryHandlers
           => Passes(AccessoryAsserts(hnd.name, hnd.args[Len(hnd.args)]),
                     Schema[hnd.name])

\* C32 witness: connectedAccessories, the handler with the most kinds of
\* argument, has made all its five assertions and run its body.
C32_Witness ==
    /\ hnd.name = "connectedAccessories"
    /\ hnd.types = Schema["connectedAccessories"]
    /\ Len(hnd.args) = Len(hnd.types)
    /\ hnd.args[5] = 0
    /\ hnd.done = 1
    /\ hnd.pc = "run"

\* C33: an attempt whose conn.Send returns an error still advances the
\* sequence number by one and does not end writeFrame: for a frame type
\* without ack it counts as an attempt at once, and for DataWithAck the
\* writer goes to the select and leaves it only on an ack or the timeout,
\* returning on a matching ack and counting the attempt otherwise.
C33_SendErrorIsOnlyLogged ==
    [][\A b \in bufs :
         /\ (seq'[b] # seq[b] /\ ~lastSend'[b].ok)
                => /\ seq'[b] = (seq[b] + 1) % SeqModulus
                   /\ "error sending frame" \in logs'[b]
                   /\ IF cfg[b].FrameType = "DataWithAck"
                      THEN pc'[b] = "select" /\ attempts'[b] = attempts[b]
                      ELSE pc'[b] = "for" /\ attempts'[b] = attempts[b] + 1
         /\ (pc[b] = "select" /\ pc'[b] # "select" /\ ~lastSend[b].ok)
                => /\ wake'[b] \in {"ack", "timeout"}
                   /\ \/ pc'[b] = "for" /\ attempts'[b] = attempts[b] + 1
                      \/ /\ pc'[b] = "range"
                         /\ wake'[b] = "ack"
                         /\ ack'[b] = FormatDecimal(netFrame[b].Seq)]_vars

\* C33 witness: a DataWithAck writer whose send failed is waiting in the
\* select on its second attempt, the first having failed too.
C33_Witness ==
    \E b \in bufs :
        /\ cfg[b].FrameType = "DataWithAck"
        /\ pc[b] = "select"
        /\ ~lastSend[b].ok
        /\ lastSend[b].attempt = 1
        /\ attempts[b] = 1
        /\ logs[b] # {}

\* C34: whenever NewConnection has returned an error, none of the sockets
\* it opened is still open: not the negotiation connection and not the
\* outbound UDP socket.
C34_FailureClosesSockets ==
    nc \notin {"none", "ok"} =>
        /\ sockNeg # "open"
        /\ sockC2D # "open"
        /\ sockD2C # "open"

\* What Receive returned last, as (ok, error or nil).
ReceiveOk == lastRecv.kind = "frame"

ReceiveErr == lastRecv.kind = "err"

\* C35: once receivePackets has exited, a call to Receive can return at
\* once and only with (empty frame, false, nil); at any time a call returns
\* only by taking a frame the loop is handing over, an error it is handing
\* over, or the closed done channel, and what it returned is never ok
\* together with an error.
C35_ReceiveAfterExit ==
    /\ []((rpc = "exited" /\ rcv = "blocked")
              => /\ ENABLED ReceiveDone
                 /\ ~ENABLED DeliverFrame
                 /\ ~ENABLED DeliverErr)
    /\ [](~(ReceiveOk /\ ReceiveErr))
    /\ [][(rcv = "blocked" /\ rcv' = "idle")
              => /\ rpc = "exited" => lastRecv' = [kind |-> "done", dg |-> 0,
                                                    idx |-> 0]
                 /\ \/ rpc = "sendFrame" /\ lastRecv'.kind = "frame"
                    \/ rpc = "sendErr" /\ lastRecv'.kind = "err"
                    \/ doneClosed /\ lastRecv'.kind = "done"]_vars

\* C35 witness: after Close, a Receive call made once the loop had exited
\* has returned (empty frame, false, nil), frames having been received
\* before.
C35_Witness ==
    /\ rpc = "exited"
    /\ stopClosed
    /\ rcv = "idle"
    /\ lastRecv.kind = "done"
    /\ delivered # <<>>

\* C36: at most one caller is inside frameReceiver.Receive past the Lock,
\* that caller holds the lock until it returns and nobody else holds it;
\* and the frames a call returned show the same bytes, those of the
\* datagram that call read, for as long as the caller keeps them, whatever
\* other Receive calls do to the datagram buffer.
C36_ReceiveExclusiveAndPrivate ==
    /\ [](/\ \A c \in Callers : frPc[c] # "idle" <=> frLock = c
          /\ \A c, o \in Callers :
                 (frPc[c] # "idle" /\ frPc[o] # "idle") => c = o)
    /\ [][\A c \in Callers :
            /\ (frRet[c].kind = "frames" /\ frRet'[c] = frRet[c])
                   => BytesOf(frRet[c].data)' = BytesOf(frRet[c].data)
            /\ (frPc[c] = "decode" /\ frRet'[c].kind = "frames")
                   => BytesOf(frRet[c].data)' = BytesOf(frData[c])]_vars

\* C36 witness: both callers hold frames, of different datagrams, the
\* buffer holding the later one.
C36_Witness ==
    /\ frRet[1].kind = "frames"
    /\ frRet[2].kind = "frames"
    /\ BytesOf(frRet[1].data) = 1
    /\ BytesOf(frRet[2].data) = 2
    /\ frBuf = 2
    /\ frLock = 0

\* C37: once a reader that took the map from Accessories() under the read
\* lock has released the lock, the map it holds still has the entries it
\* had when the reader took it.
C37_AccessoriesIsSnapshot ==
    \A r \in Readers :
        (accSeen[r] # <<>> /\ r \notin rwReaders["accessoryState"])
            => EntriesOf(accSeen[r][1].map) = accSeen[r][1].entries

====
